---------------------------- MODULE Spec2Model ----------------------------
(***************************************************************************)
(* A model of the Worderly level generator (src/worderly.py) and of its    *)
(* data classes (src/worderly_classes.py).                                  *)
(*                                                                         *)
(* A word is a sequence of one-character strings, a word list a sequence   *)
(* of words.  Indices named as in the source (loc, r_int, i, j) are        *)
(* 0-based as in Python; a sequence s is read at s[k + 1].                 *)
(***************************************************************************)
EXTENDS Integers, Sequences, FiniteSets, TLC

VARIABLES
    wordlist,        \* play_game's wordlist argument (read only)
    rng,             \* state of the process-wide random source
    pc,              \* position of the running specification
    grid,            \* GameGrid.grid: the rows, each a sequence of characters
    game_words,      \* GameState.game_words, in insertion order
    main_word,       \* the global main_word of play_game
    gs_subwords,     \* GameState.subwords: the pool as picked
    subwords,        \* the pool the placement functions consume
    vertical_count,  \* play_game / fill local
    horizontal_count,\* fill local
    attempts,        \* play_game local: tries of the bootstrap loop
    count,           \* fill local: vertical_count + horizontal_count + 7
    fill_attempts,   \* fill local: attempts
    direction,       \* fill local
    ops,             \* number of operations applied so far; in a generation attempt
                     \* the calls of place_vertical_subwords of lines 461 and 470
    lex_word,        \* argument of a lexicon function
    lex_main,        \* argument of a lexicon function
    result,          \* value returned by the last function applied
    call,            \* name and arguments of the last call on a grid, board or tracker
    file,            \* content of the leaderboard file
    entries,         \* Leaderboard.entries
    current_streak,  \* StreakTracker.current_streak
    current_points,  \* StreakTracker.current_points
    player_name,     \* StreakTracker.player_name
    wins,            \* the points passed to add_win since the last reset_streak
    hide_the_letters_grid, \* play_game local: the grid the player sees
    guessed_words,   \* play_game local: the cells revealed and scored
    level_points,    \* play_game local: points
    revealed_positions, \* play_game local
    lives,           \* play_game local
    found_words      \* play_game local: the keys of the words found

vars == <<wordlist, rng, pc, grid, game_words, main_word, gs_subwords, subwords,
          vertical_count, horizontal_count, attempts, count, fill_attempts, direction,
          ops, lex_word, lex_main, result, call, file, entries, current_streak,
          current_points, player_name, wins, hide_the_letters_grid, guessed_words,
          level_points, revealed_positions, lives, found_words>>

\* the locals of play_game's generation loop and of the fill pass
loopVars == <<vertical_count, horizontal_count, attempts, count, fill_attempts, direction>>

\* the variables only the lexicon specifications use
lexVars == <<lex_word, lex_main, result>>

\* the variables of the leaderboard and of the streak tracker
boardVars == <<call, file, entries, current_streak, current_points, player_name, wins>>

\* the locals of play_game's guessing loop
playVars == <<hide_the_letters_grid, guessed_words, level_points, revealed_positions,
              lives, found_words>>

\* no level is being played
PlayIdle ==
    /\ hide_the_letters_grid = <<>>
    /\ guessed_words = <<>>
    /\ level_points = 0
    /\ revealed_positions = <<>>
    /\ lives = 0
    /\ found_words = {}

\* no leaderboard and no tracker: there is no file, nothing is loaded or counted
BoardIdle ==
    /\ call = <<>>
    /\ file = [kind |-> "missing", value |-> [type |-> "none", items |-> <<>>]]
    /\ entries = <<>>
    /\ current_streak = 0
    /\ current_points = 0
    /\ player_name = <<>>
    /\ wins = <<>>

(***************************************************************************)
(* Bounds of the model.                                                    *)
(***************************************************************************)
\* the random source takes values 0 .. RngMod - 1; every value is a seed
RngMod == 256
\* longest word drawn as an argument of valid_subword
MaxWordLen == 3
\* longest word list drawn as an argument of get_subsets
MaxListLen == 2
\* number of placement operations applied in an arbitrary order
MaxOps == 4
\* number of add_entry calls on the leaderboard
MaxAdds == 3
\* longest streak the tracker is driven to
MaxWins == 2
\* number of letters on the grid the validators are asked about
MaxLetters == 2

(***************************************************************************)
(* LevelConfig (src/worderly_classes.py).                                  *)
(***************************************************************************)
rows == 15
columns == 25
word_length == 6
min_subwords == 20
min_vertical_words == 4
max_total_words == 25
max_attempts == 100
center_row == -((-rows) \div 2) - word_length
center_col == -((-columns) \div 2) - word_length
\* the acceptance threshold of play_game
MinLevelWords == 21
\* the words place_remaining_subwords_until_20 takes as already seeded
SeededWords == 7

(***************************************************************************)
(* Characters and str methods.                                             *)
(***************************************************************************)
LowerChar(c) ==
    CASE c = "M" -> "m" [] c = "A" -> "a" [] c = "S" -> "s"
      [] c = "T" -> "t" [] c = "E" -> "e" [] c = "R" -> "r"
      [] c = "B" -> "b" [] c = "L" -> "l" [] c = "Y" -> "y" [] c = "N" -> "n"
      [] OTHER -> c

UpperChar(c) ==
    CASE c = "m" -> "M" [] c = "a" -> "A" [] c = "s" -> "S"
      [] c = "t" -> "T" [] c = "e" -> "E" [] c = "r" -> "R"
      [] c = "b" -> "B" [] c = "l" -> "L" [] c = "y" -> "Y" [] c = "n" -> "N"
      [] OTHER -> c

IsSpace(c) == c \in {" ", "\n"}

\* str.lower()
Lower(w) == [i \in 1..Len(w) |-> LowerChar(w[i])]

\* str.upper()
Upper(w) == [i \in 1..Len(w) |-> UpperChar(w[i])]

RECURSIVE LStrip(_)
LStrip(w) ==
    IF w # <<>> /\ IsSpace(Head(w)) THEN LStrip(Tail(w)) ELSE w

RECURSIVE RStrip(_)
RStrip(w) ==
    IF w # <<>> /\ IsSpace(w[Len(w)]) THEN RStrip(SubSeq(w, 1, Len(w) - 1)) ELSE w

\* str.strip()
Strip(w) == RStrip(LStrip(w))

\* str.count(letter)
Count(w, c) == Cardinality({i \in 1..Len(w) : w[i] = c})

\* letter in word
Contains(w, c) == \E i \in 1..Len(w) : w[i] = c

\* str.index(letter), 0-based; the letter occurs in w
Index(w, c) == (CHOOSE i \in 1..Len(w) : w[i] = c /\ \A k \in 1..(i - 1) : w[k] # c) - 1

\* list.remove(x): the list without the first element equal to x
Remove(s, x) ==
    LET k == CHOOSE i \in 1..Len(s) : s[i] = x /\ \A j \in 1..(i - 1) : s[j] # x
    IN  SubSeq(s, 1, k - 1) \o SubSeq(s, k + 1, Len(s))

(***************************************************************************)
(* The random source.  random.shuffle, random.randint and random.choice    *)
(* draw from one generator; a draw below n reads the state and advances it.*)
(***************************************************************************)
\* the generator's step: a linear congruential generator
NextRng(r) == (r * 77 + 33) % RngMod

\* a draw below n, scaled from the state
RandBelow(r, n) == (r * n) \div RngMod

\* random.shuffle(x): for i in reversed(range(1, len(x))): swap x[i], x[randbelow(i + 1)]
RECURSIVE ShuffleFrom(_, _, _)
ShuffleFrom(x, i, r) ==
    IF i < 1 THEN [list |-> x, rng |-> r]
    ELSE LET j == RandBelow(r, i + 1)
             y == [x EXCEPT ![i + 1] = x[j + 1], ![j + 1] = x[i + 1]]
         IN  ShuffleFrom(y, i - 1, NextRng(r))

Shuffle(x, r) == ShuffleFrom(x, Len(x) - 1, r)

(***************************************************************************)
(* Lexicon filter (src/worderly.py, lines 10-41).                          *)
(***************************************************************************)
\* valid_subword without the test for the main word itself
valid_subword_NoSameWord(word, mainw) ==
    LET m == Lower(mainw)
    IN  \A i \in 1..Len(word) : Count(word, word[i]) <= Count(m, word[i])

\* valid_subword that wants every letter strictly less often than in the main word
valid_subword_Strict(word, mainw) ==
    LET m == Lower(mainw)
    IN  IF word = m THEN FALSE
        ELSE \A i \in 1..Len(word) : Count(word, word[i]) < Count(m, word[i])

valid_subword(word, mainw) ==
    LET m == Lower(mainw)
    IN  IF word = m THEN FALSE
        ELSE \A i \in 1..Len(word) : Count(word, word[i]) <= Count(m, word[i])

Stripped(list) == [i \in 1..Len(list) |-> Strip(list[i])]

InRange36(w) == 3 <= Len(w) /\ Len(w) <= 6

\* the words of at least 2 letters
InRange26(w) == 2 <= Len(w) /\ Len(w) <= 6

\* get_subsets with the lower length bound off by one
get_subsets_From2(mainw, list) ==
    LET two_to_six == SelectSeq(Stripped(list), InRange26)
        Valid(w) == valid_subword(w, mainw)
    IN  SelectSeq(two_to_six, Valid)

get_subsets(mainw, list) ==
    LET three_to_six == SelectSeq(Stripped(list), InRange36)
        Valid(w) == valid_subword(w, mainw)
    IN  SelectSeq(three_to_six, Valid)

IsSix(w) == Len(w) = 6

six_letter_wordlist(list) == SelectSeq(Stripped(list), IsSix)

\* the loop of pick_valid_main_word asking for more than min_subwords sub-words
RECURSIVE PickFrom_MoreThanMin(_, _, _)
PickFrom_MoreThanMin(cands, list, k) ==
    IF k > Len(cands) THEN [found |-> FALSE, word |-> <<>>, subsets |-> <<>>]
    ELSE LET subsets_main == get_subsets(cands[k], list)
         IN  IF Len(subsets_main) > min_subwords
             THEN [found |-> TRUE, word |-> cands[k], subsets |-> subsets_main]
             ELSE PickFrom_MoreThanMin(cands, list, k + 1)

\* the for loop of pick_valid_main_word over the shuffled candidates, from index k;
\* falling off the loop returns None
RECURSIVE PickFrom(_, _, _)
PickFrom(cands, list, k) ==
    IF k > Len(cands) THEN [found |-> FALSE, word |-> <<>>, subsets |-> <<>>]
    ELSE LET subsets_main == get_subsets(cands[k], list)
         IN  IF Len(subsets_main) >= min_subwords
             THEN [found |-> TRUE, word |-> cands[k], subsets |-> subsets_main]
             ELSE PickFrom(cands, list, k + 1)

\* returns the pair (or None: found = FALSE) and the random source after the shuffle
pick_valid_main_word(list, r) ==
    LET sh == Shuffle(six_letter_wordlist(list), r)
        p  == PickFrom(sh.list, list, 1)
    IN  [found |-> p.found, word |-> p.word, subsets |-> p.subsets, rng |-> sh.rng]

(***************************************************************************)
(* GameGrid and GameState (src/worderly_classes.py).                       *)
(***************************************************************************)
Cells == (0..(rows - 1)) \X (0..(columns - 1))

InGrid(r, c) == 0 <= r /\ r < rows /\ 0 <= c /\ c < columns

\* GameGrid(): ['.' * columns for _ in range(rows)]; a row is a sequence of characters
make_grid == [r \in 1..rows |-> [c \in 1..columns |-> "."]]

get_cell(g, r, c) == IF InGrid(r, c) THEN g[r + 1][c + 1] ELSE "."

\* set_cell without the lower bounds: a negative index counts from the end
set_cell_NoLowerBound(g, r, c, ch) ==
    IF r < rows /\ c < columns
    THEN LET row == IF r < 0 THEN rows + r ELSE r
             col == IF c < 0 THEN columns + c ELSE c
         IN  [g EXCEPT ![row + 1] = SubSeq(g[row + 1], 1, col) \o <<ch>>
                                      \o SubSeq(g[row + 1], col + 2, Len(g[row + 1]))]
    ELSE g

\* set_cell that writes one column to the right
set_cell_NextColumn(g, r, c, ch) ==
    IF InGrid(r, c + 1)
    THEN [g EXCEPT ![r + 1] = SubSeq(g[r + 1], 1, c + 1) \o <<ch>>
                                \o SubSeq(g[r + 1], c + 3, Len(g[r + 1]))]
    ELSE g

\* self.grid[row] = self.grid[row][:col] + char + self.grid[row][col + 1:]
set_cell(g, r, c, ch) ==
    IF InGrid(r, c)
    THEN [g EXCEPT ![r + 1] = SubSeq(g[r + 1], 1, c) \o <<ch>>
                                \o SubSeq(g[r + 1], c + 2, Len(g[r + 1]))]
    ELSE g

\* the index of word's entry in the word map, 0 when it has none
KeyIndex(gw, word) ==
    IF \E k \in 1..Len(gw) : gw[k].word = word
    THEN CHOOSE k \in 1..Len(gw) : gw[k].word = word
    ELSE 0

\* add_word that never overwrites: a second entry for the same text
add_word_AppendOnly(gw, word, positions, is_main_word, dir) ==
    Append(gw, [word |-> word, positions |-> positions,
                is_main_word |-> is_main_word, direction |-> dir])

\* add_word with the crossing cell left out of the record
add_word_NoCrossing(gw, word, positions, is_main_word, dir) ==
    LET entry == [word |-> word, positions |-> Tail(positions),
                  is_main_word |-> is_main_word, direction |-> dir]
        k == KeyIndex(gw, word)
    IN  IF k = 0 THEN Append(gw, entry) ELSE [gw EXCEPT ![k] = entry]

\* GameState.add_word: game_words[word] = GameWord(...); a dict keeps the place of
\* a key that is assigned again
add_word(gw, word, positions, is_main_word, dir) ==
    LET entry == [word |-> word, positions |-> positions,
                  is_main_word |-> is_main_word, direction |-> dir]
        k == KeyIndex(gw, word)
    IN  IF k = 0 THEN Append(gw, entry) ELSE [gw EXCEPT ![k] = entry]

\* GameState.remove_word: del game_words[word] when the key is there
remove_word(gw, word) ==
    LET k == KeyIndex(gw, word)
    IN  IF k = 0 THEN gw ELSE SubSeq(gw, 1, k - 1) \o SubSeq(gw, k + 1, Len(gw))

get_word_positions(gw, word) ==
    LET k == KeyIndex(gw, word)
    IN  IF k = 0 THEN <<>> ELSE gw[k].positions

\* [w for w, gw in game_state.game_words.items() if gw.direction == dir]
IsDirection(dir, e) == e.direction = dir

WordsOf(gw, dir) ==
    LET Sel(e) == IsDirection(dir, e)
        es == SelectSeq(gw, Sel)
    IN  [k \in 1..Len(es) |-> es[k].word]

(***************************************************************************)
(* Placement validator (src/worderly.py, lines 148-201 and 246-297).       *)
(***************************************************************************)
Occupied(g, r, c) == get_cell(g, r, c) # "."

\* GameGrid.get_cell of a grid built with nrows rows and ncols columns
cell_in(g, nrows, ncols, r, c) ==
    IF 0 <= r /\ r < nrows /\ 0 <= c /\ c < ncols THEN g[r + 1][c + 1] ELSE "."

\* the check of lines 180-200 that looks at the letter's own row only
ver_adjacent_SameRow(g, nrows, ncols, n, i, row, col) ==
    \A s \in {-1, 0, 1} :
       (0 <= col + s /\ col + s < ncols) => cell_in(g, nrows, ncols, row, col + s) = "."

\* lines 180-200 of ver_can_be_placed for letter i of n, which is not the shared
\* one and lies at (row, col), col being col_0; nrows and ncols are config.rows and
\* config.columns
ver_adjacent(g, nrows, ncols, n, i, row, col) ==
    \A s \in {-1, 0, 1} :
       IF i = 0
       THEN \A t \in {-1, 0} :
               (row + t >= 0 /\ 0 <= col + s /\ col + s < ncols
                  /\ 0 <= row + t /\ row + t < nrows)
               => cell_in(g, nrows, ncols, row + t, col + s) = "."
       ELSE IF i = n - 1
       THEN \A b \in {0, 1} :
               (row + b < nrows /\ 0 <= col + s /\ col + s < ncols
                  /\ 0 <= row + b /\ row + b < nrows)
               => cell_in(g, nrows, ncols, row + b, col + s) = "."
       ELSE (0 <= col + s /\ col + s < ncols)
               => cell_in(g, nrows, ncols, row, col + s) = "."

\* ver_can_be_placed with config.rows = nrows and config.columns = ncols
ver_placed_in(g, nrows, ncols, subword, row_0, col_0, loc) ==
    LET n == Len(subword)
        top_row == row_0 - loc - 1
        bottom_row == row_0 + (n - loc)
        LetterOk(i) ==
            LET letter == subword[i + 1]
                offset == i - loc
                row == row_0 + offset
                col == col_0
            IN  /\ 0 <= row /\ row < nrows /\ 0 <= col /\ col < ncols
                /\ ~(cell_in(g, nrows, ncols, row, col) # "."
                       /\ cell_in(g, nrows, ncols, row, col) # letter)
                /\ offset # 0 => ver_adjacent(g, nrows, ncols, n, i, row, col)
    IN  /\ ~(0 <= top_row /\ top_row < nrows
               /\ cell_in(g, nrows, ncols, top_row, col_0) # ".")
        /\ ~(0 <= bottom_row /\ bottom_row < nrows
               /\ cell_in(g, nrows, ncols, bottom_row, col_0) # ".")
        /\ \A i \in 0..(n - 1) : LetterOk(i)

\* ver_can_be_placed that looks at the grid's edges only
ver_can_be_placed_EdgesOnly(g, subword, row_0, col_0, loc) ==
    \A i \in 0..(Len(subword) - 1) : InGrid(row_0 + (i - loc), col_0)

ver_can_be_placed(g, subword, row_0, col_0, loc) ==
    ver_placed_in(g, rows, columns, subword, row_0, col_0, loc)

\* the check of lines 278-296 without its last branch: an intermediate letter passes
hor_adjacent_NoIntermediate(g, n, i, row, col) ==
    \A s \in {-1, 0, 1} :
       IF i = 0
       THEN \A j \in {-1, 0} :
               (0 <= col + j /\ col + j < columns /\ 0 <= row + s /\ row + s < rows)
               => ~Occupied(g, row + s, col + j)
       ELSE IF i = n - 1
       THEN \A r \in {0, 1} :
               (0 <= col + r /\ col + r < columns /\ 0 <= row + s /\ row + s < rows)
               => ~Occupied(g, row + s, col + r)
       ELSE TRUE

\* lines 278-296 of hor_can_be_placed for letter i of n, which is not the shared
\* one and lies at (row, col)
hor_adjacent(g, n, i, row, col) ==
    \A s \in {-1, 0, 1} :
       IF i = 0
       THEN \A j \in {-1, 0} :
               (0 <= col + j /\ col + j < columns /\ 0 <= row + s /\ row + s < rows)
               => ~Occupied(g, row + s, col + j)
       ELSE IF i = n - 1
       THEN \A r \in {0, 1} :
               (0 <= col + r /\ col + r < columns /\ 0 <= row + s /\ row + s < rows)
               => ~Occupied(g, row + s, col + r)
       ELSE (0 <= row + s /\ row + s < rows)
               => ~Occupied(g, row + s, col)

\* hor_can_be_placed that does not look at the cells beyond the two ends
hor_can_be_placed_NoEndCells(g, subword, row_0, col_0, loc) ==
    \A i \in 0..(Len(subword) - 1) :
       LET col == col_0 + (i - loc)
       IN  /\ InGrid(row_0, col)
           /\ ~(get_cell(g, row_0, col) # "." /\ get_cell(g, row_0, col) # subword[i + 1])
           /\ i # loc => hor_adjacent(g, Len(subword), i, row_0, col)

\* hor_can_be_placed that bounds the cell right of the word by the number of rows
hor_can_be_placed_RowBound(g, subword, row_0, col_0, loc) ==
    LET n == Len(subword)
        left_col == col_0 - loc - 1
        right_col == col_0 + (n - loc)
    IN  /\ ~(0 <= left_col /\ left_col < columns /\ Occupied(g, row_0, left_col))
        /\ ~(0 <= right_col /\ right_col < rows /\ Occupied(g, row_0, right_col))
        /\ \A i \in 0..(n - 1) :
              LET col == col_0 + (i - loc)
              IN  /\ InGrid(row_0, col)
                  /\ ~(get_cell(g, row_0, col) # "."
                         /\ get_cell(g, row_0, col) # subword[i + 1])
                  /\ i # loc => hor_adjacent(g, n, i, row_0, col)

hor_can_be_placed(g, subword, row_0, col_0, loc) ==
    LET n == Len(subword)
        left_col == col_0 - loc - 1
        right_col == col_0 + (n - loc)
        LetterOk(i) ==
            LET letter == subword[i + 1]
                offset == i - loc
                col == col_0 + offset
                row == row_0
            IN  /\ InGrid(row, col)
                /\ ~(get_cell(g, row, col) # "." /\ get_cell(g, row, col) # letter)
                /\ offset # 0 => hor_adjacent(g, n, i, row, col)
    IN  /\ ~(0 <= left_col /\ left_col < columns /\ Occupied(g, row_0, left_col))
        /\ ~(0 <= right_col /\ right_col < columns /\ Occupied(g, row_0, right_col))
        /\ \A i \in 0..(n - 1) : LetterOk(i)

(***************************************************************************)
(* Placement engine (src/worderly.py, lines 56-146 and 203-244).           *)
(***************************************************************************)
\* the diagonal with a step of one cell
DiagonalCell_Step1(i) == <<center_row + i, center_col + i>>

\* the position of letter i of a diagonal main word
DiagonalCell(i) == <<center_row + (i * 2), center_col + (i * 2)>>

\* the loop of main_word_diagonal from letter i on
RECURSIVE DiagonalFrom(_, _, _)
DiagonalFrom(word, i, g) ==
    IF i >= Len(word) THEN g
    ELSE DiagonalFrom(word, i + 1,
             set_cell(g, DiagonalCell(i)[1], DiagonalCell(i)[2], UpperChar(word[i + 1])))

main_word_diagonal(word, g, gw) ==
    LET positions == [k \in 1..Len(word) |-> DiagonalCell(k - 1)]
    IN  [grid |-> DiagonalFrom(word, 0, g),
         game_words |-> add_word(gw, Upper(word), positions, TRUE, "diagonal")]

\* the inner loop that writes the crossing letter as the sub-word spells it
RECURSIVE MainSubwordFrom_AsSpelled(_, _, _, _, _, _)
MainSubwordFrom_AsSpelled(subword, loc, row_0, col_0, j, g) ==
    IF j >= Len(subword) THEN g
    ELSE LET col_1 == col_0 + (j - loc)
             g1 == IF 0 <= row_0 /\ row_0 < rows /\ 0 <= col_1 /\ col_1 < columns
                   THEN set_cell(g, row_0, col_1, subword[j + 1])
                   ELSE g
         IN  MainSubwordFrom_AsSpelled(subword, loc, row_0, col_0, j + 1, g1)

\* the inner loop of place_main_subwords over the letters of subword, from letter j on
RECURSIVE MainSubwordFrom(_, _, _, _, _, _)
MainSubwordFrom(subword, loc, row_0, col_0, j, g) ==
    IF j >= Len(subword) THEN g
    ELSE LET letter == subword[j + 1]
             hor_off == j - loc
             col_1 == col_0 + hor_off
             g1 == IF hor_off = 0 THEN set_cell(g, row_0, col_1, UpperChar(letter))
                   ELSE IF 0 <= row_0 /\ row_0 < rows /\ 0 <= col_1 /\ col_1 < columns
                        THEN set_cell(g, row_0, col_1, letter)
                        ELSE g
         IN  MainSubwordFrom(subword, loc, row_0, col_0, j + 1, g1)

\* for subword in subwords[:]: if ...: the index of the first pool word, in pool
\* order, whose test oks[k] holds; 0 when there is none
FirstIndex(oks) ==
    IF \E k \in 1..Len(oks) : oks[k]
    THEN CHOOSE k \in 1..Len(oks) : oks[k] /\ \A h \in 1..(k - 1) : ~oks[h]
    ELSE 0

\* the outer loop of place_main_subwords from main letter i on
RECURSIVE MainSubwordsFrom(_, _, _, _, _)
MainSubwordsFrom(word, i, sw, g, gw) ==
    IF i >= Len(word) THEN [grid |-> g, game_words |-> gw, subwords |-> sw]
    ELSE LET main_letter == word[i + 1]
             row_0 == center_row + (i * 2)
             col_0 == center_col + (i * 2)
             Has(w) == Contains(w, main_letter)
             k == FirstIndex([h \in 1..Len(sw) |-> Has(sw[h])])
         IN  IF k = 0 THEN MainSubwordsFrom(word, i + 1, sw, g, gw)
             ELSE LET subword == sw[k]
                      loc == Index(subword, main_letter)
                      positions == [j \in 1..Len(subword) |-> <<row_0, col_0 + ((j - 1) - loc)>>]
                  IN  MainSubwordsFrom(word, i + 1, Remove(sw, subword),
                          MainSubwordFrom(subword, loc, row_0, col_0, 0, g),
                          add_word(gw, subword, positions, FALSE, "horizontal"))

place_main_subwords(word, sw, g, gw) == MainSubwordsFrom(word, 0, sw, g, gw)

\* a letter loop that lays the word from the crossed cell downwards
RECURSIVE VerticalFrom_NoOffset(_, _, _, _, _, _)
VerticalFrom_NoOffset(subword, loc, row_0, col_0, j, g) ==
    IF j >= Len(subword) THEN g
    ELSE LET ver_off == j
             row_1 == row_0 + ver_off
             g1 == IF ver_off = 0 THEN g
                   ELSE IF 0 <= row_1 /\ row_1 < rows
                        THEN set_cell(g, row_1, col_0, subword[j + 1])
                        ELSE g
         IN  VerticalFrom_NoOffset(subword, loc, row_0, col_0, j + 1, g1)

\* the letter loop of place_vertical_subwords, from letter j on
RECURSIVE VerticalFrom(_, _, _, _, _, _)
VerticalFrom(subword, loc, row_0, col_0, j, g) ==
    IF j >= Len(subword) THEN g
    ELSE LET ver_off == j - loc
             row_1 == row_0 + ver_off
             g1 == IF ver_off = 0 THEN g
                   ELSE IF 0 <= row_1 /\ row_1 < rows
                        THEN set_cell(g, row_1, col_0, subword[j + 1])
                        ELSE g
         IN  VerticalFrom(subword, loc, row_0, col_0, j + 1, g1)

\* a placement that counts the call, not the word placed
place_vertical_subwords_CountsCalls(word, sw, g, gw, vcount, r) ==
    LET word_positions == get_word_positions(gw, word)
    IN  IF word_positions = <<>>
        THEN [grid |-> g, game_words |-> gw, subwords |-> sw, count |-> vcount + 1, rng |-> r]
        ELSE LET r_int == RandBelow(r, Len(word))
                 main_letter == word[r_int + 1]
                 row_0 == word_positions[r_int + 1][1]
                 col_0 == word_positions[r_int + 1][2]
                 Fits(w) == /\ Contains(w, main_letter)
                            /\ ver_can_be_placed(g, w, row_0, col_0, Index(w, main_letter))
                 k == FirstIndex([h \in 1..Len(sw) |-> Fits(sw[h])])
             IN  IF k = 0
                 THEN [grid |-> g, game_words |-> gw, subwords |-> sw, count |-> vcount + 1,
                       rng |-> NextRng(r)]
                 ELSE LET subword == sw[k]
                          loc == Index(subword, main_letter)
                          positions == [j \in 1..Len(subword) |->
                                           <<row_0 + ((j - 1) - loc), col_0>>]
                      IN  [grid |-> VerticalFrom(subword, loc, row_0, col_0, 0, g),
                           game_words |-> add_word(gw, subword, positions, FALSE, "vertical"),
                           subwords |-> Remove(sw, subword),
                           count |-> vcount + 1,
                           rng |-> NextRng(r)]

\* r is the random source: random.randint(0, len(word) - 1) is drawn from it when
\* the word is recorded
place_vertical_subwords(word, sw, g, gw, vcount, r) ==
    LET word_positions == get_word_positions(gw, word)
    IN  IF word_positions = <<>>
        THEN [grid |-> g, game_words |-> gw, subwords |-> sw, count |-> vcount, rng |-> r]
        ELSE LET r_int == RandBelow(r, Len(word))
                 main_letter == word[r_int + 1]
                 row_0 == word_positions[r_int + 1][1]
                 col_0 == word_positions[r_int + 1][2]
                 Fits(w) == /\ Contains(w, main_letter)
                            /\ ver_can_be_placed(g, w, row_0, col_0, Index(w, main_letter))
                 k == FirstIndex([h \in 1..Len(sw) |-> Fits(sw[h])])
             IN  IF k = 0
                 THEN [grid |-> g, game_words |-> gw, subwords |-> sw, count |-> vcount,
                       rng |-> NextRng(r)]
                 ELSE LET subword == sw[k]
                          loc == Index(subword, main_letter)
                          positions == [j \in 1..Len(subword) |->
                                           <<row_0 + ((j - 1) - loc), col_0>>]
                      IN  [grid |-> VerticalFrom(subword, loc, row_0, col_0, 0, g),
                           game_words |-> add_word(gw, subword, positions, FALSE, "vertical"),
                           subwords |-> Remove(sw, subword),
                           count |-> vcount + 1,
                           rng |-> NextRng(r)]

\* the letter loop of place_horizontal_subwords, from letter j on
RECURSIVE HorizontalFrom(_, _, _, _, _, _)
HorizontalFrom(subword, loc, row_0, col_0, j, g) ==
    IF j >= Len(subword) THEN g
    ELSE LET hor_off == j - loc
             col_1 == col_0 + hor_off
             g1 == IF hor_off = 0 THEN g
                   ELSE IF 0 <= col_1 /\ col_1 < columns
                        THEN set_cell(g, row_0, col_1, subword[j + 1])
                        ELSE g
         IN  HorizontalFrom(subword, loc, row_0, col_0, j + 1, g1)

place_horizontal_subwords(word, sw, g, gw, hcount, r) ==
    LET word_positions == get_word_positions(gw, word)
    IN  IF word_positions = <<>>
        THEN [grid |-> g, game_words |-> gw, subwords |-> sw, count |-> hcount, rng |-> r]
        ELSE LET c_int == RandBelow(r, Len(word))
                 main_letter == word[c_int + 1]
                 row_0 == word_positions[c_int + 1][1]
                 col_0 == word_positions[c_int + 1][2]
                 Fits(w) == /\ Contains(w, main_letter)
                            /\ hor_can_be_placed(g, w, row_0, col_0, Index(w, main_letter))
                 k == FirstIndex([h \in 1..Len(sw) |-> Fits(sw[h])])
             IN  IF k = 0
                 THEN [grid |-> g, game_words |-> gw, subwords |-> sw, count |-> hcount,
                       rng |-> NextRng(r)]
                 ELSE LET subword == sw[k]
                          loc == Index(subword, main_letter)
                          positions == [j \in 1..Len(subword) |->
                                           <<row_0, col_0 + ((j - 1) - loc)>>]
                      IN  [grid |-> HorizontalFrom(subword, loc, row_0, col_0, 0, g),
                           game_words |-> add_word(gw, subword, positions, FALSE, "horizontal"),
                           subwords |-> Remove(sw, subword),
                           count |-> hcount + 1,
                           rng |-> NextRng(r)]

(***************************************************************************)
(* Word lists given to play_game.                                          *)
(***************************************************************************)
\* "master" and 24 of its sub-words
MasterList ==
    << <<"m","a","s","t","e","r">>, <<"m","a","s","t">>,
       <<"t","e","r","m">>, <<"t","e","a","m">>, <<"s","t","e","a","m">>, <<"m","a","t","e","r">>,
       <<"t","a","m","e","r">>, <<"s","m","a","r","t">>, <<"a","s","t","e","r">>,
       <<"r","a","t","e","s">>, <<"t","e","a","r","s">>, <<"s","t","a","r","e">>,
       <<"r","e","a","m","s">>, <<"m","e","a","t","s">>, <<"m","a","t","e","s">>,
       <<"t","r","a","m","s">>, <<"s","t","r","e","a","m">>, <<"t","a","m","e","r","s">>,
       <<"a","r","m">>, <<"a","r","t">>, <<"a","t","e">>, <<"e","a","r">>, <<"e","a","t">>,
       <<"e","r","a">>, <<"m","a","t">> >>

\* "master" and ten sub-words, each listed twice: a pool of 20 with 10 distinct texts
HopelessList ==
    << <<"m","a","s","t","e","r">>, <<"m","a","s","t">>, <<"t","e","r","m">>, <<"t","e","a","m">>,
       <<"s","t","e","a","m">>, <<"m","a","t","e","r">>, <<"t","a","m","e","r">>,
       <<"s","m","a","r","t">>, <<"a","s","t","e","r">>, <<"r","a","t","e","s">>,
       <<"t","e","a","r","s">>, <<"m","a","s","t">>, <<"t","e","r","m">>, <<"t","e","a","m">>,
       <<"s","t","e","a","m">>, <<"m","a","t","e","r">>, <<"t","a","m","e","r">>,
       <<"s","m","a","r","t">>, <<"a","s","t","e","r">>, <<"r","a","t","e","s">>,
       <<"t","e","a","r","s">> >>

\* a list whose only six-letter word has three sub-words; lines as readlines() gives them
SmallList ==
    << <<"m","a","s","t","e","r","\n">>, <<"m","a","s","t","\n">>, <<" ","t","e","r","m">>,
       <<"t","e","a","m">> >>

\* the sub-words of MasterList under an upper-case main word
UpperList == <<Upper(MasterList[1])>> \o Tail(MasterList)

\* "master" and 20 distinct sub-words, none of which holds its letter r
GappedList ==
    << <<"m","a","s","t","e","r">>, <<"m","a","s","t">>, <<"m","a","t","s">>, <<"t","e","a","m">>,
       <<"t","a","m","e">>, <<"m","e","a","t">>, <<"m","a","t","e">>, <<"m","e","t","a">>,
       <<"s","e","a","t">>, <<"e","a","s","t">>, <<"e","a","t","s">>, <<"t","e","a","s">>,
       <<"s","a","t","e">>, <<"s","a","m","e">>, <<"s","e","a","m">>, <<"m","e","s","a">>,
       <<"s","t","e","a","m">>, <<"t","e","a","m","s">>, <<"m","e","a","t","s">>,
       <<"m","a","t","e","s">>, <<"t","a","m","e","s">> >>

GenLists == {MasterList, HopelessList, SmallList, UpperList, GappedList}

(***************************************************************************)
(* The generation loop of play_game (src/worderly.py, lines 444-476) and   *)
(* place_remaining_subwords_until_20 (lines 299-330).                      *)
(*   pc: "generate" top of the while True loop     "seed"  line 452        *)
(*       "cross" line 454    "first_vertical" line 460    "bootstrap" 465  *)
(*       "fill" line 310     "check" line 475      "play"  line 479        *)
(*       "error" an exception left play_game                               *)
(***************************************************************************)
\* random.choice(seq)
Choice(seq, r) == seq[RandBelow(r, Len(seq)) + 1]

\* an attempt that keeps the grid of the attempt before it
NewAttempt_KeepGrid ==
    /\ pc = "generate"
    /\ LET p == pick_valid_main_word(wordlist, rng)
       IN  /\ grid' = grid
           /\ game_words' = <<>>
           /\ rng' = p.rng
           /\ IF p.found
              THEN /\ main_word' = p.word
                   /\ gs_subwords' = p.subsets
                   /\ subwords' = p.subsets
                   /\ pc' = "seed"
              ELSE /\ UNCHANGED <<main_word, gs_subwords, subwords>>
                   /\ pc' = "error"
    /\ ops' = 0
    /\ UNCHANGED <<boardVars, playVars, wordlist, loopVars, lexVars>>

\* lines 445-450: a new grid and state, then the pick; unpacking None raises TypeError
NewAttempt ==
    /\ pc = "generate"
    /\ LET p == pick_valid_main_word(wordlist, rng)
       IN  /\ grid' = make_grid
           /\ game_words' = <<>>
           /\ rng' = p.rng
           /\ IF p.found
              THEN /\ main_word' = p.word
                   /\ gs_subwords' = p.subsets
                   /\ subwords' = p.subsets
                   /\ pc' = "seed"
              ELSE /\ UNCHANGED <<main_word, gs_subwords, subwords>>
                   /\ pc' = "error"
    /\ ops' = 0
    /\ UNCHANGED <<boardVars, playVars, wordlist, loopVars, lexVars>>

\* lines 452-453: shuffle the pool, place the main word
Seed ==
    /\ pc = "seed"
    /\ LET sh == Shuffle(subwords, rng)
           d  == main_word_diagonal(main_word, grid, game_words)
       IN  /\ subwords' = sh.list
           /\ rng' = sh.rng
           /\ grid' = d.grid
           /\ game_words' = d.game_words
    /\ pc' = "cross"
    /\ UNCHANGED <<boardVars, playVars, wordlist, main_word, gs_subwords, loopVars, ops, lexVars>>

\* lines 454-458: cross the main word; continue when no horizontal word was placed
Cross ==
    /\ pc = "cross"
    /\ LET m == place_main_subwords(main_word, subwords, grid, game_words)
       IN  /\ grid' = m.grid
           /\ game_words' = m.game_words
           /\ subwords' = m.subwords
           /\ pc' = IF WordsOf(m.game_words, "horizontal") = <<>>
                    THEN "generate" ELSE "first_vertical"
    /\ UNCHANGED <<boardVars, playVars, wordlist, rng, main_word, gs_subwords, loopVars, ops, lexVars>>

\* lines 460-463
FirstVertical ==
    /\ pc = "first_vertical"
    /\ LET horizontal_words == WordsOf(game_words, "horizontal")
           word1 == Choice(horizontal_words, rng)
           v == place_vertical_subwords(word1, subwords, grid, game_words, 0, NextRng(rng))
       IN  /\ grid' = v.grid
           /\ game_words' = v.game_words
           /\ subwords' = v.subwords
           /\ vertical_count' = v.count
           /\ rng' = v.rng
    /\ attempts' = 0
    /\ ops' = 1
    /\ pc' = "bootstrap"
    /\ UNCHANGED <<boardVars, playVars, wordlist, main_word, gs_subwords, horizontal_count, count,
                   fill_attempts, direction, lexVars>>

\* the loop condition without the division of max_attempts
BootstrapGoesOn_AllAttempts ==
    vertical_count < min_vertical_words /\ attempts < max_attempts

BootstrapGoesOn ==
    vertical_count < min_vertical_words /\ attempts < max_attempts \div 5

\* lines 465-471: one iteration of the bootstrap loop
BootstrapStep ==
    /\ pc = "bootstrap"
    /\ BootstrapGoesOn
    /\ LET horizontal_words == WordsOf(game_words, "horizontal")
       IN  IF horizontal_words = <<>>
           THEN /\ pc' = "fill_start"
                /\ UNCHANGED <<grid, game_words, subwords, vertical_count, rng, attempts, ops>>
           ELSE LET word1 == Choice(horizontal_words, rng)
                    v == place_vertical_subwords(word1, subwords, grid, game_words,
                                                 vertical_count, NextRng(rng))
                IN  /\ grid' = v.grid
                    /\ game_words' = v.game_words
                    /\ subwords' = v.subwords
                    /\ vertical_count' = v.count
                    /\ rng' = v.rng
                    /\ attempts' = attempts + 1
                    /\ ops' = ops + 1
                    /\ pc' = "bootstrap"
    /\ UNCHANGED <<boardVars, playVars, wordlist, main_word, gs_subwords, horizontal_count, count,
                   fill_attempts, direction, lexVars>>

\* a fill pass that goes on counting where the bootstrap loop stopped
FillStart_SharedCounter ==
    /\ pc = "fill_start" \/ (pc = "bootstrap" /\ ~BootstrapGoesOn)
    /\ horizontal_count' = 0
    /\ count' = vertical_count + 0 + SeededWords
    /\ direction' = Choice(<<"vertical", "horizontal">>, rng)
    /\ rng' = NextRng(rng)
    /\ fill_attempts' = attempts
    /\ pc' = "fill"
    /\ UNCHANGED <<boardVars, playVars, wordlist, grid, game_words, main_word, gs_subwords, subwords,
                   vertical_count, attempts, ops, lexVars>>

\* line 465 false, then line 473 and lines 301-308: the fill pass starts
FillStart ==
    /\ pc = "fill_start" \/ (pc = "bootstrap" /\ ~BootstrapGoesOn)
    /\ horizontal_count' = 0
    /\ count' = vertical_count + 0 + SeededWords
    /\ direction' = Choice(<<"vertical", "horizontal">>, rng)
    /\ rng' = NextRng(rng)
    /\ fill_attempts' = 0
    /\ pc' = "fill"
    /\ UNCHANGED <<boardVars, playVars, wordlist, grid, game_words, main_word, gs_subwords, subwords,
                   vertical_count, attempts, ops, lexVars>>

FillGoesOn == count < max_total_words /\ fill_attempts < max_attempts

\* a flip whose two branches give the direction it was given
NextDirection_Same(dir) == IF dir = "vertical" THEN "vertical" ELSE "horizontal"

\* line 327
NextDirection(dir) == IF dir = "vertical" THEN "horizontal" ELSE "vertical"

\* an iteration that turns to the other direction when it has no word to cross
FillBreak_TriesOther ==
    /\ direction' = NextDirection(direction)
    /\ fill_attempts' = fill_attempts + 1
    /\ pc' = "fill"
    /\ UNCHANGED <<grid, game_words, subwords, vertical_count, horizontal_count, rng, count>>

\* lines 321-323: no word to cross in the chosen direction
FillBreak ==
    /\ pc' = "check"
    /\ UNCHANGED <<grid, game_words, subwords, vertical_count, horizontal_count,
                   rng, count, direction, fill_attempts>>

\* lines 310-328: one iteration of the fill loop
FillStep ==
    /\ pc = "fill"
    /\ FillGoesOn
    /\ LET horizontal_words == WordsOf(game_words, "horizontal")
           vertical_words == WordsOf(game_words, "vertical")
       IN  IF direction = "vertical" /\ horizontal_words # <<>>
           THEN LET word == Choice(horizontal_words, rng)
                    v == place_vertical_subwords(word, subwords, grid, game_words,
                                                 vertical_count, NextRng(rng))
                IN  /\ grid' = v.grid
                    /\ game_words' = v.game_words
                    /\ subwords' = v.subwords
                    /\ vertical_count' = v.count
                    /\ rng' = v.rng
                    /\ count' = v.count + horizontal_count + SeededWords
                    /\ direction' = NextDirection(direction)
                    /\ fill_attempts' = fill_attempts + 1
                    /\ pc' = "fill"
                    /\ UNCHANGED horizontal_count
           ELSE IF direction = "horizontal" /\ vertical_words # <<>>
           THEN LET word == Choice(vertical_words, rng)
                    h == place_horizontal_subwords(word, subwords, grid, game_words,
                                                   horizontal_count, NextRng(rng))
                IN  /\ grid' = h.grid
                    /\ game_words' = h.game_words
                    /\ subwords' = h.subwords
                    /\ horizontal_count' = h.count
                    /\ rng' = h.rng
                    /\ count' = vertical_count + h.count + SeededWords
                    /\ direction' = NextDirection(direction)
                    /\ fill_attempts' = fill_attempts + 1
                    /\ pc' = "fill"
                    /\ UNCHANGED vertical_count
           ELSE FillBreak
    /\ UNCHANGED <<boardVars, playVars, wordlist, main_word, gs_subwords, attempts, ops, lexVars>>

\* line 310 false: the fill pass returns
FillDone ==
    /\ pc = "fill"
    /\ ~FillGoesOn
    /\ pc' = "check"
    /\ UNCHANGED <<boardVars, playVars, wordlist, rng, grid, game_words, main_word, gs_subwords, subwords,
                   loopVars, ops, lexVars>>

\* a check that accepts whatever the attempt placed
CheckLevel_AcceptAll ==
    /\ pc = "check"
    /\ pc' = "play"
    /\ UNCHANGED <<boardVars, playVars, wordlist, rng, grid, game_words, main_word, gs_subwords, subwords,
                   loopVars, ops, lexVars>>

\* lines 475-476: accept the level or start over
CheckLevel ==
    /\ pc = "check"
    /\ pc' = IF Len(game_words) >= MinLevelWords THEN "play" ELSE "generate"
    /\ UNCHANGED <<boardVars, playVars, wordlist, rng, grid, game_words, main_word, gs_subwords, subwords,
                   loopVars, ops, lexVars>>

Init ==
    /\ wordlist \in GenLists
    /\ rng \in 0..(RngMod - 1)
    /\ pc = "generate"
    /\ grid = make_grid
    /\ game_words = <<>>
    /\ main_word = <<>>
    /\ gs_subwords = <<>>
    /\ subwords = <<>>
    /\ vertical_count = 0
    /\ horizontal_count = 0
    /\ attempts = 0
    /\ count = 0
    /\ fill_attempts = 0
    /\ direction = "vertical"
    /\ ops = 0
    /\ lex_word = <<>>
    /\ lex_main = <<>>
    /\ result = <<>>
    /\ BoardIdle
    /\ PlayIdle

Next ==
    \/ NewAttempt
    \/ Seed
    \/ Cross
    \/ FirstVertical
    \/ BootstrapStep
    \/ FillStart
    \/ FillStep
    \/ FillDone
    \/ CheckLevel

Spec == Init /\ [][Next]_vars

\* The generation loop under fairness.  play_game runs on one thread, so a step
\* that can be taken is taken; the fairness is stated for the two steps whose
\* enabling TLC decides without placing a word, and C4 states the rest itself.
FairSpec == Init /\ [][Next]_vars /\ WF_vars(CheckLevel) /\ WF_vars(FillDone)

(***************************************************************************)
(* Properties of the generation loop.                                      *)
(***************************************************************************)
\* the entries of the word map other than the main word
IsSubwordEntry(e) == ~e.is_main_word

\* two entries of the word map hold the same cell at letters i and j
SharedCell(a, i, b, j) == a.positions[i] = b.positions[j]

\* C1: after a full generation cycle no cell lies in the position lists of two
\* distinct recorded words with different letters (compared ignoring case).
C1_NoConflictingCell ==
    pc \in {"check", "play"} =>
        \A a \in 1..Len(game_words) : \A b \in 1..Len(game_words) :
            a # b =>
                \A i \in 1..Len(game_words[a].positions) :
                    \A j \in 1..Len(game_words[b].positions) :
                        SharedCell(game_words[a], i, game_words[b], j)
                        => LowerChar(game_words[a].word[i]) = LowerChar(game_words[b].word[j])

\* a finished cycle in which a vertical word crosses a horizontal sub-word
C1_Witness ==
    /\ pc = "check"
    /\ \E a \in 1..Len(game_words) : \E b \in 1..Len(game_words) :
          /\ game_words[a].direction = "vertical"
          /\ game_words[b].direction = "horizontal"
          /\ \E i \in 1..Len(game_words[a].positions) :
                \E j \in 1..Len(game_words[b].positions) :
                    SharedCell(game_words[a], i, game_words[b], j)

\* C3: a level reaches gameplay only with at least 21 recorded words, and an
\* attempt that ends with fewer is followed by a new attempt.
C3_AcceptOnly21 ==
    [][ /\ pc' = "play" => Len(game_words') >= 21
        /\ (pc = "check" /\ Len(game_words) < 21) => pc' = "generate"
        /\ pc = "play" => pc' = "play" ]_vars

\* an accepted level, and it holds at least 21 words
C3_Witness == pc = "play" /\ Len(game_words) >= 21

\* a rejected attempt: back at the top of the loop with the rejected level still bound
C3_RejectedWitness == pc = "generate" /\ Len(game_words) > 1 /\ Len(game_words) < 21

\* C4: level generation always ends, also for a word list from which no attempt
\* can reach 21 words: on HopelessList (at most 11 distinct texts) no run of the
\* loop takes steps forever without reaching gameplay or a failure.
C4_GenerationEnds ==
    (wordlist = HopelessList /\ []<><<Next>>_vars) => <>(pc \in {"play", "error"})

\* C5: every attempt starts from an all-empty grid, an empty word map and a newly
\* picked main word with its own pool, whatever an earlier attempt left behind.
C5_FreshAttempt ==
    [][ (pc = "generate" /\ pc' = "seed") =>
            /\ Len(grid') = 15
            /\ \A r \in 1..15 : Len(grid'[r]) = 25 /\ \A c \in 1..25 : grid'[r][c] = "."
            /\ game_words' = <<>>
            /\ \E k \in 1..Len(wordlist) : main_word' = Strip(wordlist[k])
            /\ Len(main_word') = 6
            /\ subwords' = get_subsets(main_word', wordlist)
            /\ gs_subwords' = subwords'
            /\ wordlist' = wordlist ]_vars

\* an attempt starts after an earlier one ran its fill pass and was rejected
C5_Witness ==
    /\ pc = "seed"
    /\ fill_attempts > 0
    /\ game_words = <<>>
    /\ \A p \in Cells : get_cell(grid, p[1], p[2]) = "."

\* an attempt starts after one that was abandoned with no horizontal word
C5_AbandonedWitness ==
    /\ pc = "generate"
    /\ Len(game_words) = 1
    /\ \E p \in Cells : get_cell(grid, p[1], p[2]) # "."

\* C11: when no six-letter word of the list qualifies, the generation loop retries
\* or reports the failure; it never ends in an unhandled error.
C11_NoUnhandledError == pc # "error"

(***************************************************************************)
(* The placement operations applied in any order to one grid and state, as  *)
(* the tests of src/test_worderly.py call them.                             *)
(*   pc: "ops" nothing applied yet, else the operation applied last;        *)
(*   lex_main: the word argument of that operation.                         *)
(***************************************************************************)
\* the words given to main_word_diagonal and place_main_subwords
OpsWords == { <<"m","a","s","t","e","r">>, <<"M","a","s","t","e","r">> }

\* the pool given to the placement operations
OpsPool ==
    << <<"m","a","s","t">>, <<"t","e","r","m">>, <<"s","t","e","a","m">>,
       <<"M","A","S","T">>, <<"e","a","r">>, <<"r","a","t","e","s">>,
       <<"s","e","a","t">>, <<"a","r","m">>, <<"m","a","t","e">> >>

\* a word that is never recorded
AbsentWord == <<"t","e","a","m">>

\* the texts recorded in the word map
Keys(gw) == {gw[k].word : k \in 1..Len(gw)}

\* states of the random source that make randint(0, n - 1) give each index of a
\* word of up to word_length letters
DrawSeeds == {((i * RngMod) + (word_length - 1)) \div word_length : i \in 0..(word_length - 1)}

OpsInit ==
    /\ wordlist = <<>>
    /\ rng = 0
    /\ pc = "ops"
    /\ grid = make_grid
    /\ game_words = <<>>
    /\ main_word = <<>>
    /\ gs_subwords = <<>>
    /\ subwords = OpsPool
    /\ vertical_count = 0
    /\ horizontal_count = 0
    /\ attempts = 0
    /\ count = 0
    /\ fill_attempts = 0
    /\ direction = "vertical"
    /\ ops = 0
    /\ lex_word = <<>>
    /\ lex_main = <<>>
    /\ result = <<>>
    /\ BoardIdle
    /\ PlayIdle

OpDiagonal ==
    /\ ops < MaxOps
    /\ \E w \in OpsWords :
          LET d == main_word_diagonal(w, grid, game_words)
          IN  /\ grid' = d.grid
              /\ game_words' = d.game_words
              /\ lex_main' = w
    /\ pc' = "main_word_diagonal"
    /\ ops' = ops + 1
    /\ UNCHANGED <<boardVars, playVars, wordlist, rng, main_word, gs_subwords, subwords, loopVars,
                   lex_word, result>>

OpMainSubwords ==
    /\ ops < MaxOps
    /\ \E w \in OpsWords :
          LET m == place_main_subwords(w, subwords, grid, game_words)
          IN  /\ grid' = m.grid
              /\ game_words' = m.game_words
              /\ subwords' = m.subwords
              /\ lex_main' = w
    /\ pc' = "place_main_subwords"
    /\ ops' = ops + 1
    /\ UNCHANGED <<boardVars, playVars, wordlist, rng, main_word, gs_subwords, loopVars, lex_word, result>>

OpVertical ==
    /\ ops < MaxOps
    /\ \E w \in Keys(game_words) \cup {AbsentWord} : \E r \in DrawSeeds :
          LET v == place_vertical_subwords(w, subwords, grid, game_words, vertical_count, r)
          IN  /\ grid' = v.grid
              /\ game_words' = v.game_words
              /\ subwords' = v.subwords
              /\ vertical_count' = v.count
              /\ lex_main' = w
    /\ pc' = "place_vertical_subwords"
    /\ ops' = ops + 1
    /\ UNCHANGED <<boardVars, playVars, wordlist, rng, main_word, gs_subwords, horizontal_count, attempts,
                   count, fill_attempts, direction, lex_word, result>>

OpHorizontal ==
    /\ ops < MaxOps
    /\ \E w \in Keys(game_words) \cup {AbsentWord} : \E r \in DrawSeeds :
          LET h == place_horizontal_subwords(w, subwords, grid, game_words,
                                             horizontal_count, r)
          IN  /\ grid' = h.grid
              /\ game_words' = h.game_words
              /\ subwords' = h.subwords
              /\ horizontal_count' = h.count
              /\ lex_main' = w
    /\ pc' = "place_horizontal_subwords"
    /\ ops' = ops + 1
    /\ UNCHANGED <<boardVars, playVars, wordlist, rng, main_word, gs_subwords, vertical_count, attempts,
                   count, fill_attempts, direction, lex_word, result>>

OpsNext == OpDiagonal \/ OpMainSubwords \/ OpVertical \/ OpHorizontal

SpecOps == OpsInit /\ [][OpsNext]_vars

\* C2: after every placement operation, applied in any order and any number of
\* times, every entry of the word map has as many positions as its text has letters.
C2_PositionsMatchText ==
    \A k \in 1..Len(game_words) :
        Len(game_words[k].positions) = Len(game_words[k].word)

\* a horizontal word placed across a vertical one, after words of every kind
C2_Witness ==
    /\ pc = "place_horizontal_subwords"
    /\ horizontal_count > 0
    /\ vertical_count > 0
    /\ \E k \in 1..Len(game_words) : Len(game_words[k].word) = 5

\* C6: after main_word_diagonal(word, ...) the word is recorded under its upper-case
\* text as the main word, diagonal, at (2 + 2i, 7 + 2i) for i = 0..5, and each of
\* these cells holds the upper-case letter.
C6_DiagonalRecord ==
    pc = "main_word_diagonal" =>
        \E k \in 1..Len(game_words) :
            /\ game_words[k].word = Upper(lex_main)
            /\ \A h \in 1..Len(game_words) : game_words[h].word = Upper(lex_main) => h = k
            /\ game_words[k].is_main_word
            /\ game_words[k].direction = "diagonal"
            /\ Len(game_words[k].positions) = 6
            /\ \A i \in 0..5 :
                  /\ game_words[k].positions[i + 1] = <<2 + (2 * i), 7 + (2 * i)>>
                  /\ game_words[k].positions[i + 1] = <<center_row + (2 * i), center_col + (2 * i)>>
                  /\ grid[2 + (2 * i) + 1][7 + (2 * i) + 1] = UpperChar(lex_main[i + 1])

\* the main word placed from a mixed-case text on a grid that already holds words
C6_Witness ==
    /\ pc = "main_word_diagonal"
    /\ lex_main = <<"M","a","s","t","e","r">>
    /\ Len(game_words) > 2
    /\ grid[3][8] = "M"
    /\ grid[13][18] = "R"

(***************************************************************************)
(* valid_subword applied to every pair of words up to MaxWordLen letters    *)
(* over an alphabet with both cases.                                        *)
(*   pc: "lex" arguments drawn, "valid_subword" the function has returned.  *)
(***************************************************************************)
LexAlphabet == {"a", "A", "b", "B"}

RECURSIVE WordsUpTo(_)
WordsUpTo(n) ==
    IF n = 0 THEN {<<>>}
    ELSE LET shorter == WordsUpTo(n - 1)
         IN  shorter \cup {Append(w, c) : w \in shorter, c \in LexAlphabet}

LexWords == WordsUpTo(MaxWordLen)

LexInit ==
    /\ wordlist = <<>>
    /\ rng = 0
    /\ pc = "lex"
    /\ grid = make_grid
    /\ game_words = <<>>
    /\ main_word = <<>>
    /\ gs_subwords = <<>>
    /\ subwords = <<>>
    /\ vertical_count = 0
    /\ horizontal_count = 0
    /\ attempts = 0
    /\ count = 0
    /\ fill_attempts = 0
    /\ direction = "vertical"
    /\ ops = 0
    /\ lex_word \in LexWords
    /\ lex_main \in LexWords
    /\ result = <<>>
    /\ BoardIdle
    /\ PlayIdle

ApplyValidSubword ==
    /\ pc = "lex"
    /\ result' = valid_subword(lex_word, lex_main)
    /\ pc' = "valid_subword"
    /\ UNCHANGED <<boardVars, playVars, wordlist, rng, grid, game_words, main_word, gs_subwords, subwords,
                   loopVars, ops, lex_word, lex_main>>

LexNext == ApplyValidSubword

SpecLex == LexInit /\ [][LexNext]_vars

\* C7: valid_subword(w, m) is false whenever w equals m ignoring case.
C7_SameWordIgnoringCase ==
    (pc = "valid_subword" /\ Lower(lex_word) = Lower(lex_main)) => result = FALSE

\* the two arguments are the same word in different casings, neither all lower case
C7_Witness ==
    /\ pc = "valid_subword"
    /\ lex_word = <<"A", "b">>
    /\ lex_main = <<"a", "B">>
    /\ result = FALSE

\* C8 as stated: valid_subword(w, m) is true exactly when (a) w and m differ
\* ignoring case and (b) every letter of w occurs in w at most as often as in m.
C8_AsStated ==
    pc = "valid_subword" =>
        (result <=>
            /\ Lower(lex_word) # Lower(lex_main)
            /\ \A i \in 1..Len(lex_word) :
                  Count(lex_word, lex_word[i]) <= Count(lex_main, lex_word[i]))

\* C8 amended: valid_subword(w, m) is true exactly when (a) w and m differ ignoring
\* case and (b) every letter of w, as written, occurs in w at most as often as in
\* m put to lower case; the empty word is valid for any non-empty m and no
\* non-empty word is valid for the empty m.
C8_CountsAgainstLowerMain ==
    pc = "valid_subword" =>
        /\ result <=>
              /\ Lower(lex_word) # Lower(lex_main)
              /\ \A i \in 1..Len(lex_word) :
                    Count(lex_word, lex_word[i]) <= Count(Lower(lex_main), lex_word[i])
        /\ (lex_word = <<>> /\ lex_main # <<>>) => result = TRUE
        /\ (lex_word # <<>> /\ lex_main = <<>>) => result = FALSE

\* a lower-case word found valid against a main word written in upper case
C8_Witness ==
    /\ pc = "valid_subword"
    /\ lex_word = <<"a", "b">>
    /\ lex_main = <<"B", "A", "b">>
    /\ result = TRUE

(***************************************************************************)
(* get_subsets and pick_valid_main_word applied to word lists: every list   *)
(* of up to MaxListLen entries, alone or followed by min_subwords - 1       *)
(* copies of one sub-word, and the lists given to play_game.                *)
(*   pc: "pick" list drawn, else the function that has returned.            *)
(***************************************************************************)
\* entries as readlines() gives them: with a newline, blanks, either case,
\* two, three, six and seven letters
PickEntries ==
    { <<"m","a","s","t","e","r">>, <<" ","M","a","s","t","e","r","\n">>,
      <<"s","t","r","e","a","m">>, <<"e","a","r","\n">>,
      <<"a","t">>, <<"m","a","s","t","e","r","s">> }

RECURSIVE ListsUpTo(_)
ListsUpTo(n) ==
    IF n = 0 THEN {<<>>}
    ELSE LET shorter == ListsUpTo(n - 1)
         IN  shorter \cup {Append(l, e) : l \in shorter, e \in PickEntries}

Repeat(w, n) == [i \in 1..n |-> w]

PickTails == { <<>>, Repeat(<<"e","a","t","\n">>, min_subwords - 1) }

PickLists == {h \o t : h \in ListsUpTo(MaxListLen), t \in PickTails} \cup GenLists

\* the main words given to get_subsets
PickMains ==
    { <<"m","a","s","t","e","r">>, <<"M","A","S","T","E","R">>,
      <<"m","a","s","t","e","r","s">>, <<"m","a","s","t">> }

PickInit ==
    /\ wordlist \in PickLists
    /\ rng = 0
    /\ pc = "pick"
    /\ grid = make_grid
    /\ game_words = <<>>
    /\ main_word = <<>>
    /\ gs_subwords = <<>>
    /\ subwords = <<>>
    /\ vertical_count = 0
    /\ horizontal_count = 0
    /\ attempts = 0
    /\ count = 0
    /\ fill_attempts = 0
    /\ direction = "vertical"
    /\ ops = 0
    /\ lex_word = <<>>
    /\ lex_main = <<>>
    /\ result = <<>>
    /\ BoardIdle
    /\ PlayIdle

ApplyGetSubsets ==
    /\ pc = "pick"
    /\ \E m \in PickMains :
          /\ lex_main' = m
          /\ result' = get_subsets(m, wordlist)
    /\ pc' = "get_subsets"
    /\ UNCHANGED <<boardVars, playVars, wordlist, rng, grid, game_words, main_word, gs_subwords, subwords,
                   loopVars, ops, lex_word>>

\* the random source is in any state when pick_valid_main_word is called
ApplyPick ==
    /\ pc = "pick"
    /\ \E r \in 0..(RngMod - 1) :
          LET p == pick_valid_main_word(wordlist, r)
          IN  /\ result' = [found |-> p.found, word |-> p.word, subsets |-> p.subsets]
              /\ rng' = p.rng
    /\ pc' = "pick_valid_main_word"
    /\ UNCHANGED <<boardVars, playVars, wordlist, grid, game_words, main_word, gs_subwords, subwords,
                   loopVars, ops, lex_word, lex_main>>

PickNext == ApplyGetSubsets \/ ApplyPick

SpecPick == PickInit /\ [][PickNext]_vars

\* a is b with some elements left out, the order kept
RECURSIVE IsSubsequence(_, _)
IsSubsequence(a, b) ==
    IF a = <<>> THEN TRUE
    ELSE IF b = <<>> THEN FALSE
    ELSE IF Head(a) = Head(b) THEN IsSubsequence(Tail(a), Tail(b))
    ELSE IsSubsequence(a, Tail(b))

\* the trimmed entries of the list, written out
TrimmedEntries == [k \in 1..Len(wordlist) |-> Strip(wordlist[k])]

\* C9: get_subsets returns, in word-list order, only trimmed entries of 3 to 6
\* characters that are sub-words of the main word, and never the main word itself
\* in any casing.
C9_SubsetsSound ==
    pc = "get_subsets" =>
        /\ IsSubsequence(result, TrimmedEntries)
        /\ \A k \in 1..Len(result) :
              /\ 3 <= Len(result[k]) /\ Len(result[k]) <= 6
              /\ \A i \in 1..Len(result[k]) : ~IsSpace(result[k][i])
              /\ valid_subword(result[k], lex_main)
              /\ \A i \in 1..Len(result[k]) :
                    Count(result[k], result[k][i]) <= Count(Lower(lex_main), result[k][i])
              /\ Lower(result[k]) # Lower(lex_main)

\* sub-words returned from a list that holds the main word in another casing,
\* a word too short and a word that needed trimming
C9_Witness ==
    /\ pc = "get_subsets"
    /\ lex_main = <<"M","A","S","T","E","R">>
    /\ Len(wordlist) > 2
    /\ wordlist[1] = <<" ","M","a","s","t","e","r","\n">>
    /\ wordlist[2] = <<"a","t">>
    /\ Len(result) = Len(wordlist) - 2

\* C10: pick_valid_main_word returns a trimmed six-character entry w of the list
\* with S = get_subsets(w, list) of at least 20 entries, or no result; no result
\* exactly when no six-character entry has at least 20 sub-words.
C10_PickResult ==
    pc = "pick_valid_main_word" =>
        LET Qualifies(k) ==
                /\ Len(Strip(wordlist[k])) = 6
                /\ Len(get_subsets(Strip(wordlist[k]), wordlist)) >= 20
        IN  IF result.found
            THEN /\ \E k \in 1..Len(wordlist) : result.word = Strip(wordlist[k])
                 /\ Len(result.word) = 6
                 /\ result.subsets = get_subsets(result.word, wordlist)
                 /\ Len(result.subsets) >= 20
            ELSE \A k \in 1..Len(wordlist) : ~Qualifies(k)

\* a main word picked with exactly 20 sub-words from a list that also holds a
\* six-character entry with fewer
C10_Witness ==
    /\ pc = "pick_valid_main_word"
    /\ result.found
    /\ Len(result.subsets) = 20
    /\ \E k \in 1..Len(wordlist) :
          /\ Len(Strip(wordlist[k])) = 6
          /\ Len(get_subsets(Strip(wordlist[k]), wordlist)) < 20

(***************************************************************************)
(* GameGrid.get_cell and GameGrid.set_cell called on one grid with          *)
(* coordinates inside, on the edge of and outside the grid.                 *)
(*   pc: "grid" nothing called yet, else the method called last;            *)
(*   call: its arguments; result: what it returned.                         *)
(***************************************************************************)
\* the variables of the level that the grid, board and tracker calls leave alone
levelVars == <<wordlist, rng, game_words, main_word, gs_subwords, subwords, loopVars,
               ops, lex_word, lex_main, playVars>>

\* no level is being generated
LevelIdle ==
    /\ wordlist = <<>>
    /\ rng = 0
    /\ game_words = <<>>
    /\ main_word = <<>>
    /\ gs_subwords = <<>>
    /\ subwords = <<>>
    /\ vertical_count = 0
    /\ horizontal_count = 0
    /\ attempts = 0
    /\ count = 0
    /\ fill_attempts = 0
    /\ direction = "vertical"
    /\ ops = 0
    /\ lex_word = <<>>
    /\ lex_main = <<>>
    /\ PlayIdle

GridRows == {-1, 0, rows - 1, rows, 100}

GridCols == {-1, 0, columns - 1, columns, 100}

GridChars == {"a", "B"}

GridInit ==
    /\ LevelIdle
    /\ pc = "grid"
    /\ grid = make_grid
    /\ result = "None"
    /\ BoardIdle

GetCell ==
    /\ \E r \in GridRows : \E c \in GridCols :
          /\ call' = [row |-> r, col |-> c, char |-> "."]
          /\ result' = get_cell(grid, r, c)
    /\ pc' = "get_cell"
    /\ UNCHANGED <<levelVars, grid, file, entries, current_streak, current_points,
                   player_name, wins>>

SetCell ==
    /\ \E r \in GridRows : \E c \in GridCols : \E ch \in GridChars :
          /\ call' = [row |-> r, col |-> c, char |-> ch]
          /\ grid' = set_cell(grid, r, c, ch)
    /\ result' = "None"
    /\ pc' = "set_cell"
    /\ UNCHANGED <<levelVars, file, entries, current_streak, current_points,
                   player_name, wins>>

GridNext == GetCell \/ SetCell

SpecGrid == GridInit /\ [][GridNext]_vars

\* C12: for every (r, c) with r < 0, r >= 15, c < 0 or c >= 25, get_cell returns '.'
\* and set_cell leaves every cell of the grid unchanged; neither raises an error.
C12_OutOfBoundsNoOp ==
    [][ (call'.row < 0 \/ call'.row >= 15 \/ call'.col < 0 \/ call'.col >= 25) =>
            /\ pc' \in {"get_cell", "set_cell"}
            /\ pc' = "get_cell" => result' = "."
            /\ pc' = "set_cell" => grid' = grid ]_vars

\* set_cell called above the first row of a grid that holds letters
C12_Witness ==
    /\ pc = "set_cell"
    /\ call.row = -1
    /\ call.col = 0
    /\ get_cell(grid, 0, 0) = "a"
    /\ get_cell(grid, rows - 1, 0) = "B"

\* C13: for every in-bounds (r, c), set_cell(r, c, ch) makes get_cell(r, c) return
\* ch, leaves every other cell unchanged and keeps the grid at 15 rows of 25 cells,
\* whatever the cell held before.
C13_SetCellFrame ==
    [][ (pc' = "set_cell" /\ 0 <= call'.row /\ call'.row < 15
                          /\ 0 <= call'.col /\ call'.col < 25) =>
            /\ Len(grid') = 15
            /\ \A r \in 1..15 : Len(grid'[r]) = 25
            /\ get_cell(grid', call'.row, call'.col) = call'.char
            /\ \A r \in 0..14 : \A c \in 0..24 :
                  (r # call'.row \/ c # call'.col) => grid'[r + 1][c + 1] = grid[r + 1][c + 1] ]_vars

\* the last cell of the grid written over a grid that holds another letter
C13_Witness ==
    /\ pc = "set_cell"
    /\ call = [row |-> 14, col |-> 24, char |-> "B"]
    /\ get_cell(grid, 14, 24) = "B"
    /\ get_cell(grid, 0, 0) = "a"

(***************************************************************************)
(* Leaderboard and LeaderboardEntry (src/worderly_classes.py, 115-224).     *)
(*                                                                         *)
(* An entry is a record of its four fields; a player name is a sequence of  *)
(* characters; an optional value is <<>> (None) or <<v>>.                   *)
(* The file is [kind, value]: kind "missing", "text" (not JSON) or "json";  *)
(* a JSON value is [type, items]: a "list" of elements, a "dict" read as    *)
(* its keys, a "string" read as its characters, a "number" or "null"; an    *)
(* element is [type, fields], an "object" with the fields it holds.         *)
(***************************************************************************)
NoValue == [type |-> "none", items |-> <<>>]

\* LeaderboardEntry.to_dict
to_dict(e) ==
    [player_name |-> e.player_name, streak_length |-> e.streak_length,
     total_points |-> e.total_points, timestamp |-> e.timestamp]

\* from_dict that reads the two numbers from each other's field
from_dict_Swapped(data) ==
    [player_name |-> data["player_name"], streak_length |-> data["total_points"],
     total_points |-> data["streak_length"],
     timestamp |-> IF "timestamp" \in DOMAIN data THEN data["timestamp"] ELSE ""]

\* LeaderboardEntry.from_dict: data.get('timestamp', '')
from_dict(data) ==
    [player_name |-> data["player_name"], streak_length |-> data["streak_length"],
     total_points |-> data["total_points"],
     timestamp |-> IF "timestamp" \in DOMAIN data THEN data["timestamp"] ELSE ""]

\* key=lambda x: (x.streak_length, x.total_points): a's key is greater than b's
KeyGreater(a, b) ==
    \/ a.streak_length > b.streak_length
    \/ a.streak_length = b.streak_length /\ a.total_points > b.total_points

\* list.sort(key=..., reverse=True) is stable: e goes behind every element whose
\* key is not smaller than its own
InsertSorted(sorted, e) ==
    LET n == Cardinality({k \in 1..Len(sorted) : ~KeyGreater(e, sorted[k])})
    IN  SubSeq(sorted, 1, n) \o <<e>> \o SubSeq(sorted, n + 1, Len(sorted))

RECURSIVE SortFrom(_, _, _)
SortFrom(es, k, sorted) ==
    IF k > Len(es) THEN sorted
    ELSE SortFrom(es, k + 1, InsertSorted(sorted, es[k]))

\* Leaderboard._sort_entries
sort_entries(es) == SortFrom(es, 1, <<>>)

\* from_dict finds the three fields it indexes
IsCompleteObject(item) ==
    /\ item.type = "object"
    /\ {"player_name", "streak_length", "total_points"} \subseteq DOMAIN item.fields

\* Leaderboard.load_leaderboard on a board that holds cur: the entries afterwards
\* and the exception that leaves the method, if any.  JSONDecodeError,
\* FileNotFoundError and KeyError are caught and empty the board.
load_leaderboard(f, cur) ==
    IF f.kind = "missing" THEN [entries |-> cur, raised |-> "none"]
    ELSE IF f.kind = "text" THEN [entries |-> <<>>, raised |-> "none"]
    ELSE IF f.value.type \in {"number", "null"}
    THEN [entries |-> cur, raised |-> "TypeError"]
    ELSE LET items == f.value.items
             bad == FirstIndex([k \in 1..Len(items) |-> ~IsCompleteObject(items[k])])
         IN  IF bad = 0
             THEN [entries |-> sort_entries([k \in 1..Len(items) |-> from_dict(items[k].fields)]),
                   raised |-> "none"]
             ELSE IF items[bad].type = "object"
             THEN [entries |-> <<>>, raised |-> "none"]
             ELSE [entries |-> cur, raised |-> "TypeError"]

\* Leaderboard.save_leaderboard: json.dump([entry.to_dict() for entry in self.entries])
save_leaderboard(es) ==
    [kind |-> "json",
     value |-> [type |-> "list",
                items |-> [k \in 1..Len(es) |-> [type |-> "object", fields |-> to_dict(es[k])]]]]

\* add_entry that appends and does not sort
add_entry_Unsorted(es, name, streak, points, timestamp) ==
    Append(es, [player_name |-> name, streak_length |-> streak,
                total_points |-> points, timestamp |-> timestamp])

\* Leaderboard.add_entry: the entries afterwards
add_entry(es, name, streak, points, timestamp) ==
    sort_entries(Append(es, [player_name |-> name, streak_length |-> streak,
                             total_points |-> points, timestamp |-> timestamp]))

\* Leaderboard.get_top_entries: self.entries[:limit]
get_top_entries(es, limit) ==
    IF limit >= 0 THEN SubSeq(es, 1, IF limit < Len(es) THEN limit ELSE Len(es))
    ELSE SubSeq(es, 1, IF Len(es) + limit > 0 THEN Len(es) + limit ELSE 0)

\* get_personal_best that compares the names as written
get_personal_best_CaseSensitive(es, name) ==
    LET Mine(e) == e.player_name = name
        player_entries == SelectSeq(es, Mine)
    IN  IF player_entries # <<>> THEN <<sort_entries(player_entries)[1]>> ELSE <<>>

\* Leaderboard.get_personal_best
get_personal_best(es, name) ==
    LET Mine(e) == Lower(e.player_name) = Lower(name)
        player_entries == SelectSeq(es, Mine)
    IN  IF player_entries # <<>> THEN <<sort_entries(player_entries)[1]>> ELSE <<>>

(***************************************************************************)
(* A Leaderboard on one file: constructed, loaded again, added to, read.    *)
(*   pc: "start" no board yet, "init" the constructor returned, else the    *)
(*       method called last, "error" an exception left the call;            *)
(*   ops: the add_entry calls so far; call, result: of a read.              *)
(***************************************************************************)
ObjectOf(fields) == [type |-> "object", fields |-> fields]

Scalar(type) == [type |-> type, fields |-> <<>>]

JsonFile(type, items) == [kind |-> "json", value |-> [type |-> type, items |-> items]]

BoardNames == { <<"a","b">>, <<"A","B">>, <<"b">> }

BoardStreaks == {1, 2}

BoardPoints == {5, 10}

\* datetime.now().strftime("%Y-%m-%d %H:%M:%S")
Now == "t1"

\* the states the file can be found in: absent, not JSON, and JSON values that
\* are or are not a list of complete entry records
BoardFiles ==
    { [kind |-> "missing", value |-> NoValue],
      [kind |-> "text", value |-> NoValue],
      JsonFile("list", <<>>),
      JsonFile("list",
               << ObjectOf([player_name |-> <<"a","b">>, streak_length |-> 1,
                            total_points |-> 10, timestamp |-> "t0"]),
                  ObjectOf([player_name |-> <<"A","B">>, streak_length |-> 2,
                            total_points |-> 5]) >>),
      JsonFile("list",
               << ObjectOf([player_name |-> <<"b">>, streak_length |-> 1,
                            total_points |-> 5, timestamp |-> "t0"]),
                  ObjectOf([player_name |-> <<"b">>, streak_length |-> 1]) >>),
      JsonFile("list",
               << ObjectOf([player_name |-> <<"b">>, streak_length |-> 1,
                            total_points |-> 5, timestamp |-> "t0"]),
                  Scalar("number") >>),
      JsonFile("dict", <<>>),
      JsonFile("dict", <<Scalar("string")>>),
      JsonFile("string", <<Scalar("string")>>),
      JsonFile("number", <<>>),
      JsonFile("null", <<>>) }

BoardInit ==
    /\ LevelIdle
    /\ pc = "start"
    /\ grid = make_grid
    /\ result = <<>>
    /\ call = <<>>
    /\ file \in BoardFiles
    /\ entries = <<>>
    /\ current_streak = 0
    /\ current_points = 0
    /\ player_name = <<>>
    /\ wins = <<>>

\* a constructor that writes an empty list over a file it could not load
NewLeaderboard_ResetsFile ==
    /\ pc # "error"
    /\ LET l == load_leaderboard(file, <<>>)
       IN  /\ entries' = l.entries
           /\ pc' = IF l.raised = "none" THEN "init" ELSE "error"
           /\ file' = IF file.kind = "text" THEN save_leaderboard(<<>>) ELSE file
    /\ result' = <<>>
    /\ call' = <<>>
    /\ UNCHANGED <<levelVars, grid, current_streak, current_points, player_name, wins>>

\* Leaderboard(filename): self.entries = [], then load_leaderboard()
NewLeaderboard ==
    /\ pc # "error"
    /\ LET l == load_leaderboard(file, <<>>)
       IN  /\ entries' = l.entries
           /\ pc' = IF l.raised = "none" THEN "init" ELSE "error"
    /\ result' = <<>>
    /\ call' = <<>>
    /\ UNCHANGED <<levelVars, grid, file, current_streak, current_points, player_name, wins>>

\* load_leaderboard() called again on the board
LoadBoard ==
    /\ pc \notin {"start", "error"}
    /\ LET l == load_leaderboard(file, entries)
       IN  /\ entries' = l.entries
           /\ pc' = IF l.raised = "none" THEN "load_leaderboard" ELSE "error"
    /\ result' = <<>>
    /\ call' = <<>>
    /\ UNCHANGED <<levelVars, grid, file, current_streak, current_points, player_name, wins>>

\* add_entry(player_name, streak_length, total_points): append, sort, save
AddEntry ==
    /\ pc \notin {"start", "error"}
    /\ ops < MaxAdds
    /\ \E name \in BoardNames : \E streak \in BoardStreaks : \E points \in BoardPoints :
          LET es == add_entry(entries, name, streak, points, Now)
          IN  /\ entries' = es
              /\ file' = save_leaderboard(es)
    /\ ops' = ops + 1
    /\ pc' = "add_entry"
    /\ result' = <<>>
    /\ call' = <<>>
    /\ UNCHANGED <<wordlist, rng, game_words, main_word, gs_subwords, subwords, loopVars,
                   lex_word, lex_main, playVars, grid, current_streak, current_points,
                   player_name, wins>>

GetTopEntries ==
    /\ pc \notin {"start", "error"}
    /\ \E limit \in {0, 1, 10} :
          /\ call' = [limit |-> limit]
          /\ result' = get_top_entries(entries, limit)
    /\ pc' = "get_top_entries"
    /\ UNCHANGED <<levelVars, grid, file, entries, current_streak, current_points,
                   player_name, wins>>

GetPersonalBest ==
    /\ pc \notin {"start", "error"}
    /\ \E name \in BoardNames \cup { <<"A","b">>, <<"m">> } :
          /\ call' = [name |-> name]
          /\ result' = get_personal_best(entries, name)
    /\ pc' = "get_personal_best"
    /\ UNCHANGED <<levelVars, grid, file, entries, current_streak, current_points,
                   player_name, wins>>

BoardNext == NewLeaderboard \/ LoadBoard \/ AddEntry \/ GetTopEntries \/ GetPersonalBest

SpecBoard == BoardInit /\ [][BoardNext]_vars

\* C14: after any sequence of load_leaderboard and add_entry calls the entries are
\* non-increasing in (streak_length, total_points), and get_top_entries(n) returns
\* the first n of them.
C14_EntriesSorted ==
    /\ \A k \in 1..(Len(entries) - 1) :
          \/ entries[k].streak_length > entries[k + 1].streak_length
          \/ /\ entries[k].streak_length = entries[k + 1].streak_length
             /\ entries[k].total_points >= entries[k + 1].total_points
    /\ pc = "get_top_entries" =>
          /\ Len(result) = (IF call.limit < Len(entries) THEN call.limit ELSE Len(entries))
          /\ \A k \in 1..Len(result) : result[k] = entries[k]

\* an entry added below a greater streak and above fewer points of the same streak
C14_Witness ==
    /\ pc = "add_entry"
    /\ Len(entries) > 3
    /\ entries[1].streak_length > entries[2].streak_length
    /\ entries[2].streak_length = entries[3].streak_length
    /\ entries[2].total_points > entries[3].total_points
    /\ entries[3].timestamp = Now

\* the file is anything but a JSON list of complete entry records
IsCorruptFile(f) ==
    \/ f.kind # "json"
    \/ f.value.type # "list"
    \/ \E k \in 1..Len(f.value.items) :
          \/ f.value.items[k].type # "object"
          \/ ~({"player_name", "streak_length", "total_points"}
                  \subseteq DOMAIN f.value.items[k].fields)

\* C15: constructing or loading a Leaderboard never fails, and a missing file, a
\* file that is not JSON and a JSON value that is not a list of complete entry
\* records all give an empty board.
C15_LoadNeverFails ==
    /\ pc # "error"
    /\ (pc = "init" /\ IsCorruptFile(file)) => entries = <<>>

\* C16: loading a leaderboard, also when the load fails, never writes the file:
\* the file changes only when add_entry is called.
C16_OnlyAddEntryWrites ==
    [][ file' # file => pc' = "add_entry" ]_vars

\* a board constructed on a file that is not JSON: empty, and the file is as it was
C16_Witness ==
    /\ pc = "init"
    /\ file.kind = "text"
    /\ entries = <<>>

\* C17: the entries written by add_entry are read back unchanged by a new
\* Leaderboard on the same file: as many, with the same four fields.
C17_RoundTrip ==
    [][ (pc = "add_entry" /\ pc' = "init") =>
            /\ Len(entries') = Len(entries)
            /\ \A k \in 1..Len(entries) :
                  /\ entries'[k].player_name = entries[k].player_name
                  /\ entries'[k].streak_length = entries[k].streak_length
                  /\ entries'[k].total_points = entries[k].total_points
                  /\ entries'[k].timestamp = entries[k].timestamp ]_vars

\* a new board read back entries that were added, next to entries the file held
C17_Witness ==
    /\ pc = "init"
    /\ ops > 1
    /\ Len(entries) > 3
    /\ file = save_leaderboard(entries)
    /\ \E k \in 1..Len(entries) : entries[k].timestamp = Now
    /\ \E k \in 1..Len(entries) : entries[k].timestamp = ""

\* C18: get_personal_best(name) returns, among the entries whose player name equals
\* name ignoring case, one with the greatest (streak_length, total_points), None
\* when there is none, and the same entry for every casing of name.
C18_PersonalBest ==
    pc = "get_personal_best" =>
        LET mine == {k \in 1..Len(entries) : Lower(entries[k].player_name) = Lower(call.name)}
        IN  /\ mine = {} => result = <<>>
            /\ mine # {} =>
                  /\ Len(result) = 1
                  /\ \E k \in mine : result[1] = entries[k]
                  /\ \A k \in mine :
                        \/ result[1].streak_length > entries[k].streak_length
                        \/ /\ result[1].streak_length = entries[k].streak_length
                           /\ result[1].total_points >= entries[k].total_points
            /\ result = get_personal_best(entries, Upper(call.name))
            /\ result = get_personal_best(entries, Lower(call.name))

\* the best of a player asked for in a casing other than the one it was stored under
C18_Witness ==
    /\ pc = "get_personal_best"
    /\ call.name = <<"A","b">>
    /\ Len(result) = 1
    /\ result[1].player_name = <<"A","B">>
    /\ \E k \in 1..Len(entries) :
          /\ entries[k].player_name = <<"a","b">>
          /\ entries[k] # result[1]

(***************************************************************************)
(* StreakTracker (src/worderly_classes.py, 226-254) next to a leaderboard   *)
(* that holds up to two entries.                                            *)
(*   pc: "tracker" constructed, else the method called last;                *)
(*   wins: the points passed to add_win since the last reset_streak.        *)
(***************************************************************************)
\* StreakTracker.reset_streak
reset_streak == [current_streak |-> 0, current_points |-> 0]

\* add_win that keeps the points of the last win only
add_win_LastPoints(streak, total, points) ==
    [current_streak |-> streak + 1, current_points |-> points]

\* StreakTracker.add_win
add_win(streak, total, points) ==
    [current_streak |-> streak + 1, current_points |-> total + points]

\* is_new_record that takes equal points for a record
is_new_record_OrEqual(name, streak, total, es) ==
    IF name = <<>> THEN FALSE
    ELSE LET personal_best == get_personal_best(es, name)
         IN  IF personal_best = <<>> THEN streak > 0
             ELSE \/ streak > personal_best[1].streak_length
                  \/ /\ streak = personal_best[1].streak_length
                     /\ total >= personal_best[1].total_points

\* StreakTracker.is_new_record(leaderboard)
is_new_record(name, streak, total, es) ==
    IF name = <<>> THEN FALSE
    ELSE LET personal_best == get_personal_best(es, name)
         IN  IF personal_best = <<>> THEN streak > 0
             ELSE \/ streak > personal_best[1].streak_length
                  \/ /\ streak = personal_best[1].streak_length
                     /\ total > personal_best[1].total_points

\* the entries a leaderboard can hold
BoardEntries ==
    [player_name : BoardNames, streak_length : BoardStreaks, total_points : BoardPoints,
     timestamp : {Now}]

\* leaderboards of no, one and two entries, sorted as the Leaderboard keeps them
TrackerBoards ==
    {<<>>} \cup {<<e>> : e \in BoardEntries}
           \cup {sort_entries(<<a, b>>) : a \in BoardEntries, b \in BoardEntries}

\* the tracker's player: not named yet, on the board in some casing, or not on it
TrackerNames == BoardNames \cup { <<>>, <<"A","b">>, <<"m">> }

\* the points of a level
WinPoints == {0, 5, 10}

TrackerInit ==
    /\ LevelIdle
    /\ pc = "tracker"
    /\ grid = make_grid
    /\ result = "None"
    /\ call = <<>>
    /\ entries \in TrackerBoards
    /\ file = save_leaderboard(entries)
    /\ current_streak = 0
    /\ current_points = 0
    /\ player_name \in TrackerNames
    /\ wins = <<>>

AddWin ==
    /\ current_streak < MaxWins
    /\ \E points \in WinPoints :
          LET t == add_win(current_streak, current_points, points)
          IN  /\ current_streak' = t.current_streak
              /\ current_points' = t.current_points
              /\ wins' = Append(wins, points)
    /\ pc' = "add_win"
    /\ result' = "None"
    /\ UNCHANGED <<levelVars, grid, call, file, entries, player_name>>

ResetStreak ==
    /\ current_streak' = reset_streak.current_streak
    /\ current_points' = reset_streak.current_points
    /\ wins' = <<>>
    /\ pc' = "reset_streak"
    /\ result' = "None"
    /\ UNCHANGED <<levelVars, grid, call, file, entries, player_name>>

IsNewRecord ==
    /\ result' = is_new_record(player_name, current_streak, current_points, entries)
    /\ pc' = "is_new_record"
    /\ UNCHANGED <<levelVars, grid, call, file, entries, current_streak, current_points,
                   player_name, wins>>

TrackerNext == AddWin \/ ResetStreak \/ IsNewRecord

SpecTracker == TrackerInit /\ [][TrackerNext]_vars

\* C19: is_new_record is true exactly when the tracker has a player name and either
\* the player has no entry and current_streak > 0, or (current_streak,
\* current_points) is lexicographically greater than the player's personal best;
\* a pair equal to the personal best is not a new record.
C19_NewRecord ==
    pc = "is_new_record" =>
        LET mine == {k \in 1..Len(entries) :
                        Lower(entries[k].player_name) = Lower(player_name)}
        IN  result <=>
               /\ player_name # <<>>
               /\ \/ mine = {} /\ current_streak > 0
                  \/ /\ mine # {}
                     /\ \A k \in mine :
                           \/ current_streak > entries[k].streak_length
                           \/ /\ current_streak = entries[k].streak_length
                              /\ current_points > entries[k].total_points

\* a streak and points equal to the player's best, stored under another casing
C19_Witness ==
    /\ pc = "is_new_record"
    /\ player_name = <<"A","B">>
    /\ Len(entries) = 2
    /\ entries[1].player_name = <<"a","b">>
    /\ entries[2].player_name = <<"b">>
    /\ current_streak = entries[1].streak_length
    /\ current_points = entries[1].total_points
    /\ result = FALSE

RECURSIVE SumOf(_)
SumOf(points) == IF points = <<>> THEN 0 ELSE Head(points) + SumOf(Tail(points))

\* C20: current_streak is the number of add_win calls since the last reset and
\* current_points the sum of the points passed to them; reset_streak sets both to 0
\* and leaves player_name unchanged.
C20_StreakCounts ==
    [][ /\ current_streak' = Len(wins')
        /\ current_points' = SumOf(wins')
        /\ pc' = "reset_streak" =>
              /\ current_streak' = 0
              /\ current_points' = 0
              /\ player_name' = player_name ]_vars

\* two wins of different points counted for a named player
C20_Witness ==
    /\ pc = "add_win"
    /\ player_name = <<"a","b">>
    /\ wins = <<10, 5>>
    /\ current_streak = 2
    /\ current_points = 15

(***************************************************************************)
(* Revealing a guessed word (src/worderly.py, lines 346-412).               *)
(* The hidden grid is a list of rows as hide_letters builds it; the answer  *)
(* map is the word map of the level, in its order.                          *)
(***************************************************************************)
\* the text hide_letters puts in place of a letter (the heart of line 356)
Heart == "<3"

\* hide_letters that leaves the upper-case letters readable
hide_letters_KeepsUpper(g) ==
    [r \in 1..Len(g) |->
        [c \in 1..Len(g[r]) |->
            IF g[r][c] = "." \/ LowerChar(g[r][c]) # g[r][c] THEN g[r][c] ELSE Heart]]

\* hide_letters(grid): a new list of rows
hide_letters(g) ==
    [r \in 1..Len(g) |-> [c \in 1..Len(g[r]) |-> IF g[r][c] = "." THEN "." ELSE Heart]]

SPECIAL_POSITIONS == {<<2, 7>>, <<4, 9>>, <<6, 11>>, <<8, 13>>, <<10, 15>>, <<12, 17>>}

\* str.isupper(): no lower-case letter and at least one letter
isupper(w) == Upper(w) = w /\ \E i \in 1..Len(w) : LowerChar(w[i]) # w[i]

\* x in list
InList(list, x) == \E k \in 1..Len(list) : list[k] = x

\* grid[row] = grid[row][:col] + [letter] + grid[row][col + 1:], for a cell of the grid
Splice(g, row, col, letter) ==
    [g EXCEPT ![row + 1] = SubSeq(g[row + 1], 1, col) \o <<letter>>
                              \o SubSeq(g[row + 1], col + 2, Len(g[row + 1]))]

\* the word update_hidden_grid looks up: correct_guess, in upper case when that is a
\* key and the guess is the same word ignoring case
LookedUp(guess, correct_guesses, correct_guess) ==
    IF KeyIndex(correct_guesses, Upper(correct_guess)) # 0 /\ Lower(guess) = Lower(correct_guess)
    THEN Upper(correct_guess)
    ELSE correct_guess

\* the letter loop that scores a cell whether it was guessed before or not
RECURSIVE RevealFrom_ScoresAll(_, _, _, _, _, _, _, _)
RevealFrom_ScoresAll(word, index, i, g, guessed, pts, revealed, main_word_upper) ==
    IF i >= Len(word)
    THEN [grid |-> g, guessed_words |-> guessed, points |-> pts, revealed_positions |-> revealed]
    ELSE LET pos == index[i + 1]
             letter == word[i + 1]
             should_capitalize ==
                 \/ isupper(word)
                 \/ main_word_upper # <<>> /\ Upper(word) = main_word_upper
                 \/ InList(revealed, pos)
                 \/ pos \in SPECIAL_POSITIONS
             display_letter == IF should_capitalize THEN UpperChar(letter) ELSE letter
         IN  IF InList(guessed, pos)
             THEN RevealFrom_ScoresAll(word, index, i + 1, g, guessed, pts + 1, revealed,
                                       main_word_upper)
             ELSE RevealFrom_ScoresAll(word, index, i + 1,
                      Splice(g, pos[1], pos[2], display_letter),
                      Append(guessed, pos),
                      pts + 1,
                      IF InList(revealed, pos) THEN revealed ELSE Append(revealed, pos),
                      main_word_upper)

\* the letter loop of update_hidden_grid, from letter i on
RECURSIVE RevealFrom(_, _, _, _, _, _, _, _)
RevealFrom(word, index, i, g, guessed, pts, revealed, main_word_upper) ==
    IF i >= Len(word)
    THEN [grid |-> g, guessed_words |-> guessed, points |-> pts, revealed_positions |-> revealed]
    ELSE LET pos == index[i + 1]
             letter == word[i + 1]
             should_capitalize ==
                 \/ isupper(word)
                 \/ main_word_upper # <<>> /\ Upper(word) = main_word_upper
                 \/ InList(revealed, pos)
                 \/ pos \in SPECIAL_POSITIONS
             display_letter == IF should_capitalize THEN UpperChar(letter) ELSE letter
         IN  IF InList(guessed, pos)
             THEN RevealFrom(word, index, i + 1, g, guessed, pts, revealed, main_word_upper)
             ELSE RevealFrom(word, index, i + 1,
                      Splice(g, pos[1], pos[2], display_letter),
                      Append(guessed, pos),
                      pts + 1,
                      IF InList(revealed, pos) THEN revealed ELSE Append(revealed, pos),
                      main_word_upper)

\* update_hidden_grid that gives a point for every letter of the word
update_hidden_grid_ScoresAll(guess, g, correct_guesses, correct_guess, guessed, pts, revealed, main_word_upper) ==
    LET word == LookedUp(guess, correct_guesses, correct_guess)
        k == KeyIndex(correct_guesses, word)
    IN  IF k = 0
        THEN [grid |-> g, guessed_words |-> guessed, points |-> pts,
              revealed_positions |-> revealed]
        ELSE RevealFrom_ScoresAll(word, correct_guesses[k].positions, 0, g, guessed, pts,
                                  revealed, main_word_upper)

\* main_word_upper is <<>> for None
update_hidden_grid(guess, g, correct_guesses, correct_guess, guessed, pts, revealed, main_word_upper) ==
    LET word == LookedUp(guess, correct_guesses, correct_guess)
        k == KeyIndex(correct_guesses, word)
    IN  IF k = 0
        THEN [grid |-> g, guessed_words |-> guessed, points |-> pts,
              revealed_positions |-> revealed]
        ELSE RevealFrom(word, correct_guesses[k].positions, 0, g, guessed, pts, revealed,
                        main_word_upper)

(***************************************************************************)
(* play_game's guessing loop on one level (src/worderly.py, 478-494 and     *)
(* 570-602): MASTER on the diagonal, "mate" and "arm" across it, "tea"      *)
(* down through the a of "mate".                                            *)
(*   pc: "play" before the first guess, then "update_hidden_grid";          *)
(*   call: the arguments of the last update_hidden_grid.                    *)
(***************************************************************************)
RevealMain == <<"m","a","s","t","e","r">>

\* a seed that makes random.randint pick the second letter of a four-letter word
SecondOfFour == (RngMod \div 4) + 1

\* the level as the placement functions build it
RevealLevel ==
    LET d == main_word_diagonal(RevealMain, make_grid, <<>>)
        h == place_main_subwords(RevealMain, << <<"m","a","t","e">>, <<"a","r","m">> >>,
                                 d.grid, d.game_words)
    IN  place_vertical_subwords(<<"m","a","t","e">>, << <<"t","e","a">> >>, h.grid,
                                h.game_words, 0, SecondOfFour)

\* what the player types, as play_game lowers it
RevealGuesses == { RevealMain, <<"m","a","t","e">>, <<"t","e","a">>, <<"t","e","a","m">> }

\* the correct_guess argument: keys of the answer map, the main word in lower case
\* and a word that is not on the level
RevealWords == RevealGuesses \cup { Upper(RevealMain), <<"a","r","m">> }

RevealInit ==
    /\ wordlist = <<>>
    /\ rng = 0
    /\ pc = "play"
    /\ grid = RevealLevel.grid
    /\ game_words = RevealLevel.game_words
    /\ main_word = RevealMain
    /\ gs_subwords = <<>>
    /\ subwords = <<>>
    /\ vertical_count = 0
    /\ horizontal_count = 0
    /\ attempts = 0
    /\ count = 0
    /\ fill_attempts = 0
    /\ direction = "vertical"
    /\ ops = 0
    /\ lex_word = <<>>
    /\ lex_main = <<>>
    /\ result = "None"
    /\ BoardIdle
    /\ hide_the_letters_grid = hide_letters(grid)
    /\ guessed_words = <<>>
    /\ level_points = 0
    /\ revealed_positions = <<>>
    /\ lives = 5
    /\ found_words = {}

Reveal ==
    /\ \E guess \in RevealGuesses : \E correct_guess \in RevealWords :
       \E main_word_upper \in {<<>>, Upper(main_word)} :
          LET u == update_hidden_grid(guess, hide_the_letters_grid, game_words, correct_guess,
                                      guessed_words, level_points, revealed_positions,
                                      main_word_upper)
          IN  /\ call' = [guess |-> guess, correct_guess |-> correct_guess,
                          main_word_upper |-> main_word_upper]
              /\ hide_the_letters_grid' = u.grid
              /\ guessed_words' = u.guessed_words
              /\ level_points' = u.points
              /\ revealed_positions' = u.revealed_positions
    /\ pc' = "update_hidden_grid"
    /\ UNCHANGED <<wordlist, rng, grid, game_words, main_word, gs_subwords, subwords, loopVars,
                   ops, lexVars, file, entries, current_streak, current_points, player_name,
                   wins, lives, found_words>>

RevealNext == Reveal

SpecReveal == RevealInit /\ [][RevealNext]_vars

\* the elements of a list
CellsOf(list) == {list[k] : k \in 1..Len(list)}

\* the step update_hidden_grid makes for word: every cell of the word not yet
\* revealed shows its letter, is added to the revealed cells and scores one point,
\* every other cell of the hidden grid is as before; nothing changes for a word
\* that is not in the answer map
RevealsWord(word) ==
    LET k == KeyIndex(game_words, word)
    IN  IF k = 0
        THEN UNCHANGED <<hide_the_letters_grid, level_points, revealed_positions>>
        ELSE LET ps == game_words[k].positions
                 fresh == {j \in 1..Len(ps) : ps[j] \notin CellsOf(revealed_positions)}
                 freshCells == {ps[j] : j \in fresh}
             IN  /\ level_points' = level_points + Cardinality(fresh)
                 /\ Len(revealed_positions') = Len(revealed_positions) + Cardinality(fresh)
                 /\ CellsOf(revealed_positions') = CellsOf(revealed_positions) \cup freshCells
                 /\ \A j \in fresh :
                       LowerChar(hide_the_letters_grid'[ps[j][1] + 1][ps[j][2] + 1])
                          = LowerChar(word[j])
                 /\ \A p \in Cells \ freshCells :
                       hide_the_letters_grid'[p[1] + 1][p[2] + 1]
                          = hide_the_letters_grid[p[1] + 1][p[2] + 1]

\* C21 as stated: update_hidden_grid reveals the not yet revealed cells of
\* correct_guess, one point each, and changes nothing when correct_guess is not a
\* key of the answer map.
C21_AsStated ==
    [][pc' = "update_hidden_grid" => RevealsWord(call'.correct_guess)]_vars

\* C21: update_hidden_grid reveals the not yet revealed cells of the word it looks
\* up, one point each, skipping the cells an earlier word revealed, and changes
\* nothing when that word is not a key of the answer map; the word looked up is
\* correct_guess, put in upper case when the upper-case form is a key and the guess
\* is the same word ignoring case.
C21_RevealsLookedUp ==
    [][pc' = "update_hidden_grid" =>
         LET cg == call'.correct_guess
             word == IF /\ \E k \in 1..Len(game_words) : game_words[k].word = Upper(cg)
                        /\ Lower(call'.guess) = Lower(cg)
                     THEN Upper(cg) ELSE cg
         IN  RevealsWord(word)]_vars

\* "tea" guessed after "mate": its a was revealed already, two cells score
C21_Witness ==
    /\ pc = "update_hidden_grid"
    /\ call.correct_guess = <<"t","e","a">>
    /\ revealed_positions = << <<2, 7>>, <<2, 8>>, <<2, 9>>, <<2, 10>>, <<0, 8>>, <<1, 8>> >>
    /\ level_points = 6
    /\ hide_the_letters_grid[1][9] = "t"
    /\ hide_the_letters_grid[3][9] = "a"
    /\ hide_the_letters_grid[5][10] = Heart

(***************************************************************************)
(* GameState as a recorder (src/worderly_classes.py, lines 64-84): words    *)
(* are added, removed and looked up in any order.                           *)
(*   pc: "state" constructed, else the method called last;                  *)
(*   call: its arguments; result: what get_word_positions returned.         *)
(***************************************************************************)
StateTexts == { <<"T","E","S","T">>, <<"m","a","s","t">>, <<"t","e","r","m">> }

StatePositions ==
    { << <<0, 0>>, <<0, 1>>, <<0, 2>>, <<0, 3>> >>,
      << <<0, 3>>, <<1, 3>>, <<2, 3>>, <<3, 3>> >> }

StateDirections == {"horizontal", "vertical"}

StateInit ==
    /\ LevelIdle
    /\ pc = "state"
    /\ grid = make_grid
    /\ result = "None"
    /\ BoardIdle

AddWord ==
    /\ \E word \in StateTexts : \E positions \in StatePositions : \E dir \in StateDirections :
          /\ call' = [word |-> word, positions |-> positions]
          /\ game_words' = add_word(game_words, word, positions, FALSE, dir)
    /\ pc' = "add_word"
    /\ result' = "None"
    /\ UNCHANGED <<wordlist, rng, grid, main_word, gs_subwords, subwords, loopVars, ops,
                   lex_word, lex_main, playVars, file, entries, current_streak,
                   current_points, player_name, wins>>

RemoveWord ==
    /\ \E word \in StateTexts :
          /\ call' = [word |-> word, positions |-> <<>>]
          /\ game_words' = remove_word(game_words, word)
    /\ pc' = "remove_word"
    /\ result' = "None"
    /\ UNCHANGED <<wordlist, rng, grid, main_word, gs_subwords, subwords, loopVars, ops,
                   lex_word, lex_main, playVars, file, entries, current_streak,
                   current_points, player_name, wins>>

GetWordPositions ==
    /\ \E word \in StateTexts :
          /\ call' = [word |-> word, positions |-> <<>>]
          /\ result' = get_word_positions(game_words, word)
    /\ pc' = "get_word_positions"
    /\ UNCHANGED <<levelVars, grid, file, entries, current_streak, current_points,
                   player_name, wins>>

StateNext == AddWord \/ RemoveWord \/ GetWordPositions

SpecState == StateInit /\ [][StateNext]_vars

\* the entries of the word map that are not word's
OthersOf(gw, word) == {gw[k] : k \in {h \in 1..Len(gw) : gw[h].word # word}}

\* C22: after add_word(t, ps, ...) get_word_positions(t) returns ps in order, also
\* when t had an entry; after remove_word(t) and for a text never added it returns
\* the empty list; no operation changes the entry of another text.
C22_Recorder ==
    [][ /\ pc' = "add_word" =>
              /\ get_word_positions(game_words', call'.word) = call'.positions
              /\ Cardinality({k \in 1..Len(game_words') : game_words'[k].word = call'.word}) = 1
        /\ pc' = "remove_word" =>
              /\ get_word_positions(game_words', call'.word) = <<>>
              /\ \A k \in 1..Len(game_words') : game_words'[k].word # call'.word
        /\ pc' = "get_word_positions" =>
              /\ game_words' = game_words
              /\ (\A k \in 1..Len(game_words) : game_words[k].word # call'.word)
                    => result' = <<>>
              /\ \A k \in 1..Len(game_words) :
                    game_words[k].word = call'.word => result' = game_words[k].positions
        /\ OthersOf(game_words', call'.word) = OthersOf(game_words, call'.word) ]_vars

\* TEST added before another word and added again with other positions
C22_Witness ==
    /\ pc = "add_word"
    /\ Len(game_words) = 2
    /\ game_words[1].word = <<"T","E","S","T">>
    /\ call.word = <<"T","E","S","T">>
    /\ game_words[1].positions = << <<0, 3>>, <<1, 3>>, <<2, 3>>, <<3, 3>> >>
    /\ game_words[1].direction = "vertical"
    /\ game_words[2].direction = "horizontal"

(***************************************************************************)
(* hide_letters on the grids that set_cell builds (src/worderly.py,         *)
(* lines 346-358).                                                          *)
(*   pc: "grid", "set_cell" or "hide_letters"; result: the hidden grid.     *)
(***************************************************************************)
HideLetters ==
    /\ result' = hide_letters(grid)
    /\ pc' = "hide_letters"
    /\ UNCHANGED <<levelVars, grid, call, file, entries, current_streak, current_points,
                   player_name, wins>>

HideNext == SetCell \/ HideLetters

SpecHide == GridInit /\ [][HideNext]_vars

\* C23: hide_letters returns a grid of the same shape in which every cell that
\* holds '.' stays '.' and every other cell holds the same placeholder, which is
\* not '.'; the input grid is not modified.
C23_HideLetters ==
    [][ pc' = "hide_letters" =>
          /\ grid' = grid
          /\ Len(result') = Len(grid)
          /\ \A r \in 1..Len(grid) : Len(result'[r]) = Len(grid[r])
          /\ \A p \in Cells : grid[p[1] + 1][p[2] + 1] = "." => result'[p[1] + 1][p[2] + 1] = "."
          /\ LET letters == {p \in Cells : grid[p[1] + 1][p[2] + 1] # "."}
             IN  \A p \in letters : \A q \in letters :
                    /\ result'[p[1] + 1][p[2] + 1] # "."
                    /\ result'[p[1] + 1][p[2] + 1] = result'[q[1] + 1][q[2] + 1] ]_vars

\* a lower-case and an upper-case letter hidden alike, an empty cell kept
C23_Witness ==
    /\ pc = "hide_letters"
    /\ grid[1][1] = "a"
    /\ grid[rows][columns] = "B"
    /\ grid[1][columns] = "."
    /\ result[1][1] = result[rows][columns]
    /\ result[1][columns] = "."

(***************************************************************************)
(* The placement validators on grids that hold a few letters near two       *)
(* corners (src/worderly.py, lines 148-201 and 246-297).                    *)
(*   ops: the number of letters put on the grid;                            *)
(*   pc: "valid", "set_cell", "ver_can_be_placed" or "hor_can_be_placed";   *)
(*   call: the candidate, the anchor and loc; result: the answer.           *)
(***************************************************************************)
\* the cells that take a letter: the first three rows and columns and the last
\* two rows and columns
ValidCells ==
    ((0..2) \X (0..2)) \cup (((rows - 2)..(rows - 1)) \X ((columns - 2)..(columns - 1)))

ValidLetters == {"a", "b"}

\* the candidates: a first, a last and an intermediate letter
ValidWords == { <<"a","b">>, <<"a","b","a">> }

ValidInit ==
    /\ LevelIdle
    /\ pc = "valid"
    /\ grid = make_grid
    /\ result = FALSE
    /\ BoardIdle

\* the grid is built first and asked about once
Building == pc \in {"valid", "set_cell"}

PutLetter ==
    /\ Building
    /\ ops < MaxLetters
    /\ \E p \in ValidCells : \E ch \in ValidLetters :
          /\ get_cell(grid, p[1], p[2]) = "."
          /\ grid' = set_cell(grid, p[1], p[2], ch)
    /\ ops' = ops + 1
    /\ pc' = "set_cell"
    /\ result' = FALSE
    /\ call' = <<>>
    /\ UNCHANGED <<wordlist, rng, game_words, main_word, gs_subwords, subwords, loopVars,
                   lex_word, lex_main, playVars, file, entries, current_streak,
                   current_points, player_name, wins>>

CheckVertical ==
    /\ Building
    /\ \E subword \in ValidWords : \E p \in ValidCells : \E loc \in 0..(Len(subword) - 1) :
          /\ call' = [subword |-> subword, row_0 |-> p[1], col_0 |-> p[2], loc |-> loc]
          /\ result' = ver_can_be_placed(grid, subword, p[1], p[2], loc)
    /\ pc' = "ver_can_be_placed"
    /\ UNCHANGED <<levelVars, grid, file, entries, current_streak, current_points,
                   player_name, wins>>

CheckHorizontal ==
    /\ Building
    /\ \E subword \in ValidWords : \E p \in ValidCells : \E loc \in 0..(Len(subword) - 1) :
          /\ call' = [subword |-> subword, row_0 |-> p[1], col_0 |-> p[2], loc |-> loc]
          /\ result' = hor_can_be_placed(grid, subword, p[1], p[2], loc)
    /\ pc' = "hor_can_be_placed"
    /\ UNCHANGED <<levelVars, grid, file, entries, current_streak, current_points,
                   player_name, wins>>

ValidNext == PutLetter \/ CheckVertical \/ CheckHorizontal

SpecValid == ValidInit /\ [][ValidNext]_vars

\* the cell of letter i of the candidate of the last call, placed downwards
VerCell(i) == <<call.row_0 + (i - call.loc), call.col_0>>

\* the cell of letter i of the candidate of the last call, placed rightwards
HorCell(i) == <<call.row_0, call.col_0 + (i - call.loc)>>

\* an occupied cell of the grid
Taken(r, c) == InGrid(r, c) /\ grid[r + 1][c + 1] # "."

\* C24: whenever ver_can_be_placed (hor_can_be_placed) returns true, every cell of
\* the candidate is inside the grid, the shared cell is empty or holds the
\* candidate's letter at index loc, and every other cell of the candidate is empty
\* and has no occupied neighbour left and right (above and below).
C24_AcceptedIsClear ==
    /\ (pc = "ver_can_be_placed" /\ result) =>
          \A i \in 0..(Len(call.subword) - 1) :
             LET p == VerCell(i)
             IN  /\ InGrid(p[1], p[2])
                 /\ i = call.loc => grid[p[1] + 1][p[2] + 1] \in {".", call.subword[i + 1]}
                 /\ i # call.loc => /\ ~Taken(p[1], p[2])
                                    /\ ~Taken(p[1], p[2] - 1)
                                    /\ ~Taken(p[1], p[2] + 1)
    /\ (pc = "hor_can_be_placed" /\ result) =>
          \A i \in 0..(Len(call.subword) - 1) :
             LET p == HorCell(i)
             IN  /\ InGrid(p[1], p[2])
                 /\ i = call.loc => grid[p[1] + 1][p[2] + 1] \in {".", call.subword[i + 1]}
                 /\ i # call.loc => /\ ~Taken(p[1], p[2])
                                    /\ ~Taken(p[1] - 1, p[2])
                                    /\ ~Taken(p[1] + 1, p[2])

\* "aba" accepted downwards through an a of the grid, next to another letter
C24_Witness ==
    /\ pc = "ver_can_be_placed"
    /\ result
    /\ call.subword = <<"a","b","a">>
    /\ call.loc = 0
    /\ call.row_0 = 0 /\ call.col_0 = 1
    /\ grid[1][2] = "a"
    /\ grid[1][3] = "b"

\* C25: ver_can_be_placed returns false whenever the cell above the candidate's
\* first letter or below its last letter is in the grid and occupied;
\* hor_can_be_placed does so for the cell left of the first and right of the last
\* letter.
C25_EndCellsFree ==
    /\ pc = "ver_can_be_placed" =>
          ((\/ Taken(call.row_0 - call.loc - 1, call.col_0)
            \/ Taken(call.row_0 + Len(call.subword) - call.loc, call.col_0)) => ~result)
    /\ pc = "hor_can_be_placed" =>
          ((\/ Taken(call.row_0, call.col_0 - call.loc - 1)
            \/ Taken(call.row_0, call.col_0 + Len(call.subword) - call.loc)) => ~result)

\* "ab" from its first letter, the cell right of its b being the only letter near
C25_Witness ==
    /\ pc = "hor_can_be_placed"
    /\ ~result
    /\ call.subword = <<"a","b">>
    /\ call.loc = 0
    /\ call.row_0 = 1 /\ call.col_0 = 0
    /\ grid[2][3] = "a"
    /\ ops = 1

\* the cells of the letter's own row that the check of letter i may look at
SameRowFree(p) == ~Taken(p[1], p[2] - 1) /\ ~Taken(p[1], p[2]) /\ ~Taken(p[1], p[2] + 1)

\* transposed: the cells of the letter's own column
SameColumnFree(p) == ~Taken(p[1] - 1, p[2]) /\ ~Taken(p[1], p[2]) /\ ~Taken(p[1] + 1, p[2])

\* the first and the last letter of the last call's candidate, the shared one left out
EndLetters == {0, Len(call.subword) - 1} \ {call.loc}

\* C26 as stated: at the first and the last letter the adjacency check rejects on
\* account of the three cells of the letter's own row (column) only.
C26_AsStated ==
    /\ pc = "ver_can_be_placed" =>
          \A i \in EndLetters :
             SameRowFree(VerCell(i)) =>
                ver_adjacent(grid, rows, columns, Len(call.subword), i,
                             VerCell(i)[1], VerCell(i)[2])
    /\ pc = "hor_can_be_placed" =>
          \A i \in EndLetters :
             SameColumnFree(HorCell(i)) =>
                hor_adjacent(grid, Len(call.subword), i, HorCell(i)[1], HorCell(i)[2])

\* the row (column) beyond the end that letter i is: -1 for the first, 1 for the last
Beyond(i) == IF i = 0 THEN -1 ELSE 1

\* C26: at the first and the last letter of a candidate, when it is not the shared
\* one, the adjacency check passes exactly when the three cells of the letter's own
\* row and the three cells of the row beyond that end are free (columns for a
\* horizontal word): it is wider than at an intermediate letter.
C26_EndLettersWider ==
    /\ pc = "ver_can_be_placed" =>
          \A i \in EndLetters :
             LET p == VerCell(i)
             IN  ver_adjacent(grid, rows, columns, Len(call.subword), i, p[1], p[2])
                    <=> (SameRowFree(p) /\ SameRowFree(<<p[1] + Beyond(i), p[2]>>))
    /\ pc = "hor_can_be_placed" =>
          \A i \in EndLetters :
             LET p == HorCell(i)
             IN  hor_adjacent(grid, Len(call.subword), i, p[1], p[2])
                    <=> (SameColumnFree(p) /\ SameColumnFree(<<p[1], p[2] + Beyond(i)>>))

\* "ab" upwards from its b: the only letter near is diagonally above its a
C26_Witness ==
    /\ pc = "ver_can_be_placed"
    /\ ~result
    /\ call.subword = <<"a","b">>
    /\ call.loc = 1
    /\ call.row_0 = 2 /\ call.col_0 = 1
    /\ grid[1][1] = "b"
    /\ ops = 1

\* the grid with rows and columns exchanged
Transposed(g) == [c \in 1..columns |-> [r \in 1..rows |-> g[r][c]]]

\* C27: hor_can_be_placed(grid, w, r, c, loc) gives the answer of ver_can_be_placed
\* on the transposed grid, of 25 rows and 15 columns, with anchor (c, r).
C27_HorIsTransposedVer ==
    pc = "hor_can_be_placed" =>
       result = ver_placed_in(Transposed(grid), columns, rows, call.subword,
                              call.col_0, call.row_0, call.loc)

\* "ab" accepted leftwards from a b of the last column, in the last row but one
C27_Witness ==
    /\ pc = "hor_can_be_placed"
    /\ result
    /\ call.subword = <<"a","b">>
    /\ call.loc = 1
    /\ call.row_0 = rows - 2 /\ call.col_0 = columns - 1
    /\ grid[rows - 1][columns] = "b"
    /\ ops = 1

(***************************************************************************)
(* place_main_subwords among the placement operations (SpecOps).            *)
(***************************************************************************)
\* the entries that the step has added to the word map
NewEntries == {k \in 1..Len(game_words') : game_words'[k].word \notin Keys(game_words)}

\* those of them laid on the row of letter i of the main word
NewAt(i) == {k \in NewEntries : game_words'[k].positions[1][1] = center_row + (2 * i)}

\* the pool when the step comes to letter i: the words placed for the letters
\* before it are gone
RECURSIVE PoolBefore(_)
PoolBefore(i) ==
    IF i = 0 THEN subwords
    ELSE IF NewAt(i - 1) = {} THEN PoolBefore(i - 1)
         ELSE Remove(PoolBefore(i - 1), game_words'[CHOOSE k \in NewAt(i - 1) : TRUE].word)

\* C28: place_main_subwords takes the main word's letters in order and places at
\* most one sub-word per letter: the first word still in the pool that contains the
\* letter, laid horizontally on the row of the letter's diagonal cell with its first
\* occurrence of the letter on that cell, which holds the upper-case letter while
\* the other cells hold the sub-word's letters; the word is recorded as horizontal
\* and leaves the pool.
C28_MainSubwords ==
    [][ pc' = "place_main_subwords" =>
          \A word \in {lex_main'} :
              /\ \A i \in 0..(Len(word) - 1) :
                 \A pool \in {PoolBefore(i)} :
                 \A has \in {{h \in 1..Len(pool) : Contains(pool[h], word[i + 1])}} :
                    IF has = {} THEN NewAt(i) = {}
                    ELSE \A first \in {pool[CHOOSE h \in has : \A x \in has : h <= x]} :
                         \A loc \in {CHOOSE j \in 0..(Len(first) - 1) :
                                        /\ first[j + 1] = word[i + 1]
                                        /\ \A x \in 0..(j - 1) : first[x + 1] # word[i + 1]} :
                         \A row_0 \in {center_row + (2 * i)} :
                         \A col_0 \in {center_col + (2 * i)} :
                         \E k \in NewAt(i) :
                            /\ NewAt(i) = {k}
                            /\ game_words'[k].word = first
                            /\ game_words'[k].direction = "horizontal"
                            /\ ~game_words'[k].is_main_word
                            /\ game_words'[k].positions
                                  = [j \in 1..Len(first) |-> <<row_0, col_0 + ((j - 1) - loc)>>]
                            /\ grid'[row_0 + 1][col_0 + 1] = UpperChar(word[i + 1])
                            /\ \A j \in 0..(Len(first) - 1) :
                                  j # loc => grid'[row_0 + 1][col_0 + (j - loc) + 1] = first[j + 1]
              /\ subwords' = PoolBefore(Len(word))
              /\ Cardinality(NewEntries) <= Len(word)
              /\ \A k \in 1..Len(game_words) : game_words'[k] = game_words[k] ]_vars

\* every letter of "master" crossed by a pool word, the upper-case "MAST" left over
C28_Witness ==
    /\ pc = "place_main_subwords"
    /\ lex_main = <<"m","a","s","t","e","r">>
    /\ Len(game_words) = 7
    /\ game_words[2].word = <<"m","a","s","t">>
    /\ game_words[2].positions[1] = <<center_row, center_col>>
    /\ grid[center_row + 1][center_col + 1] = "M"
    /\ grid[center_row + 1][center_col + 2] = "a"
    /\ game_words[3].word = <<"s","t","e","a","m">>
    /\ game_words[3].positions[4] = <<center_row + 2, center_col + 2>>
    /\ Len(subwords) = 3

(***************************************************************************)
(* The two bounded loops of a generation attempt (Spec).                    *)
(***************************************************************************)
\* C29 as stated: the bootstrap phase of an attempt makes at most max_attempts/5
\* = 20 vertical placement tries and ends with at most 4 vertical words.
C29_AsStated ==
    /\ ops <= max_attempts \div 5
    /\ pc = "bootstrap" => vertical_count <= min_vertical_words

\* C29: the bootstrap phase makes one vertical placement try and then retries
\* while fewer than 4 vertical words exist and fewer than 20 retries were made: at
\* most 21 tries in an attempt, at most 4 vertical words at its end.
C29_BootstrapBounded ==
    [][ /\ ops' <= (max_attempts \div 5) + 1
        /\ pc' = "bootstrap" =>
              /\ vertical_count' <= min_vertical_words
              /\ attempts' <= max_attempts \div 5
              /\ ops' = attempts' + 1
        /\ (pc = "bootstrap" /\ pc' = "bootstrap") =>
              /\ vertical_count < min_vertical_words
              /\ attempts < max_attempts \div 5 ]_vars

\* the retries used up with fewer than 4 vertical words placed
C29_Witness ==
    /\ pc = "bootstrap"
    /\ attempts = max_attempts \div 5
    /\ ops = (max_attempts \div 5) + 1
    /\ vertical_count > 0
    /\ vertical_count < min_vertical_words

\* the bootstrap ended by the fourth vertical word
C29_FourWitness ==
    /\ pc = "bootstrap"
    /\ vertical_count = min_vertical_words
    /\ attempts < max_attempts \div 5

C30_ExhaustedWitness ==
    /\ pc = "check"
    /\ fill_attempts = max_attempts
    /\ count < max_total_words

(***************************************************************************)
(* The fill pass (src/worderly.py, lines 299-330) inside the generation     *)
(* loop.                                                                    *)
(***************************************************************************)
\* an iteration of the fill loop that reached line 328
FillIteration == pc = "fill" /\ pc' = "fill"

\* C31: every iteration of the fill loop that does not leave it flips the
\* direction, whether or not it placed a word: an iteration in direction
\* "vertical" is a vertical placement try (it records no horizontal word and
\* leaves horizontal_count alone) and the next one is in direction
\* "horizontal", and the other way round.
C31_DirectionAlternates ==
    [][FillIteration =>
          /\ direction \in {"vertical", "horizontal"}
          /\ direction' \in {"vertical", "horizontal"}
          /\ direction' # direction
          /\ fill_attempts' = fill_attempts + 1
          /\ direction = "vertical" =>
                /\ horizontal_count' = horizontal_count
                /\ \A k \in NewEntries : game_words'[k].direction = "vertical"
          /\ direction = "horizontal" =>
                /\ vertical_count' = vertical_count
                /\ \A k \in NewEntries : game_words'[k].direction = "horizontal"]_vars

\* a fill pass in which some iteration placed nothing and some horizontal
\* iteration placed a word
C31_Witness ==
    /\ pc = "fill"
    /\ fill_attempts > vertical_count + horizontal_count
    /\ horizontal_count > 0

\* the direction of the fill pass has no recorded word to cross (lines 315-323)
NoWordToCross ==
    \/ direction = "vertical" /\ WordsOf(game_words, "horizontal") = <<>>
    \/ direction = "horizontal" /\ WordsOf(game_words, "vertical") = <<>>

\* C32: an iteration of the fill loop whose direction has no recorded word to
\* cross ends the fill pass at once: it places nothing, counts no attempt and
\* does not turn to the other direction.
C32_EndsWithoutWordToCross ==
    [][(pc = "fill" /\ FillGoesOn /\ NoWordToCross) =>
          /\ pc' = "check"
          /\ UNCHANGED <<grid, game_words, subwords, vertical_count, horizontal_count,
                         count, direction, fill_attempts, rng>>]_vars

\* a fill pass that ended for lack of a vertical word, with iterations and
\* words to spare
C32_Witness ==
    /\ pc = "check"
    /\ FillGoesOn
    /\ NoWordToCross
    /\ WordsOf(game_words, "horizontal") # <<>>

(***************************************************************************)
(* One call of place_vertical_subwords or place_horizontal_subwords         *)
(* (src/worderly.py, lines 100-146 and 203-244).                            *)
(***************************************************************************)
\* the step is such a call; the count it was given and the count it returned
PlacementCall == pc' \in {"place_vertical_subwords", "place_horizontal_subwords"}

CountBefore == IF pc' = "place_vertical_subwords" THEN vertical_count ELSE horizontal_count

CountAfter == IF pc' = "place_vertical_subwords" THEN vertical_count' ELSE horizontal_count'

\* the call changed nothing
PlacedNothing ==
    /\ grid' = grid
    /\ game_words' = game_words
    /\ subwords' = subwords
    /\ CountAfter = CountBefore

\* the call placed the pool's h-th word: the word is recorded last, in the
\* orientation of the call, and is written on the grid at its positions (the
\* cell shared with the crossed word keeps its letter, the same ignoring
\* case); nothing else of the grid, the word map or the pool changed
PlacedWord(h) ==
    /\ subwords' = [i \in 1..(Len(subwords) - 1) |->
                       IF i < h THEN subwords[i] ELSE subwords[i + 1]]
    /\ Len(game_words') = Len(game_words) + 1
    /\ \A k \in 1..Len(game_words) : game_words'[k] = game_words[k]
    /\ \A e \in {game_words'[Len(game_words')]} :
          /\ e.word = subwords[h]
          /\ ~e.is_main_word
          /\ e.direction = IF pc' = "place_vertical_subwords" THEN "vertical" ELSE "horizontal"
          /\ Len(e.positions) = Len(e.word)
          /\ \A j \in 1..Len(e.word) :
                /\ InGrid(e.positions[j][1], e.positions[j][2])
                /\ LowerChar(grid'[e.positions[j][1] + 1][e.positions[j][2] + 1])
                      = LowerChar(e.word[j])
          /\ \A c \in Cells \ {e.positions[j] : j \in 1..Len(e.positions)} :
                grid'[c[1] + 1][c[2] + 1] = grid[c[1] + 1][c[2] + 1]
          /\ \E j \in 1..Len(e.word) :
                grid'[e.positions[j][1] + 1][e.positions[j][2] + 1]
                   # grid[e.positions[j][1] + 1][e.positions[j][2] + 1]
    /\ CountAfter = CountBefore + 1

\* C33: a call of place_vertical_subwords or place_horizontal_subwords either
\* places nothing, and then the grid, the word map, the pool and the count are
\* as before the call, or writes one pool word on the grid, records that word,
\* takes it out of the pool and returns the count increased by 1; a call on a
\* word that is not recorded, or none of whose letters is in a pool word,
\* places nothing.
C33_AllOrNothing ==
    [][PlacementCall =>
          /\ PlacedNothing \/ \E h \in 1..Len(subwords) : PlacedWord(h)
          /\ lex_main' \notin Keys(game_words) => PlacedNothing
          /\ (\A h \in 1..Len(subwords) : \A j \in 1..Len(lex_main') :
                 ~Contains(subwords[h], lex_main'[j])) => PlacedNothing]_vars

\* a call on a word that is not recorded, after calls that placed a vertical
\* and a horizontal word
C33_Witness ==
    /\ pc \in {"place_vertical_subwords", "place_horizontal_subwords"}
    /\ lex_main = AbsentWord
    /\ vertical_count > 0
    /\ horizontal_count > 0

(***************************************************************************)
(* The word map against the placements of a generation attempt.             *)
(***************************************************************************)
\* the words the attempt has placed: each placement took one word out of the pool
Placements == Len(gs_subwords) - Len(subwords)

\* C34: in a generation attempt no sub-word is placed twice: every placement
\* records a text that is not yet a key of the word map, so the map holds the
\* main word and one entry for each placement.
C34_NoWordPlacedTwice ==
    pc \in {"cross", "first_vertical", "bootstrap", "fill_start", "fill", "check"}
       => Len(game_words) = 1 + Placements

\* C35: after the seed and the cross-horizontal phase the word map holds
\* exactly 7 words, the main word and a horizontal word for each of its six
\* letters, and throughout the fill pass the counter
\* vertical_count + horizontal_count + 7 is the number of words in the map.
C35_CounterIsMapSize ==
    /\ pc = "first_vertical" => Len(game_words) = SeededWords
    /\ pc \in {"fill", "check"} =>
          /\ count = vertical_count + horizontal_count + SeededWords
          /\ count = Len(game_words)

(***************************************************************************)
(* The word map against the grid during a generation attempt.               *)
(***************************************************************************)
\* the character of the grid at a position of a recorded word
At(g, p) == g[p[1] + 1][p[2] + 1]

\* C36: at every point of a generation attempt each recorded word has one
\* position per letter, every position is a cell of the grid that holds the
\* letter of that index ignoring case, a horizontal word lies in one row on
\* consecutive columns and a vertical word in one column on consecutive rows
\* (the main word lies on the diagonal, on every second row and column).
C36_PositionsOnGrid ==
    \A k \in 1..Len(game_words) :
    \A e \in {game_words[k]} :
        /\ Len(e.positions) = Len(e.word)
        /\ \A i \in 1..Len(e.positions) :
              /\ InGrid(e.positions[i][1], e.positions[i][2])
              /\ LowerChar(At(grid, e.positions[i])) = LowerChar(e.word[i])
              /\ e.direction = "horizontal" =>
                    e.positions[i] = <<e.positions[1][1], e.positions[1][2] + (i - 1)>>
              /\ e.direction = "vertical" =>
                    e.positions[i] = <<e.positions[1][1] + (i - 1), e.positions[1][2]>>
              /\ e.direction = "diagonal" =>
                    e.positions[i] = <<e.positions[1][1] + (2 * (i - 1)),
                                       e.positions[1][2] + (2 * (i - 1))>>
        /\ e.direction \in {"horizontal", "vertical", "diagonal"}

\* a finished attempt with words placed by the cross phase, the bootstrap
\* loop and both directions of the fill pass
C36_Witness ==
    /\ pc = "check"
    /\ vertical_count > min_vertical_words
    /\ horizontal_count > 0
    /\ Len(WordsOf(game_words, "horizontal")) > horizontal_count

\* the main word's cell on the diagonal for its letter i
OnDiagonal(i) == At(grid, DiagonalCell(i))

\* C37: during a generation attempt a cell that holds a letter keeps it: a
\* step of the attempt writes only into empty cells or writes the character
\* that is already there, so once the main word is on the diagonal its six
\* cells hold its upper-case letters until the level is accepted.
C37_LettersStay ==
    [][pc # "generate" =>
          /\ \A c \in Cells : At(grid, c) # "." => At(grid', c) = At(grid, c)
          /\ pc # "seed" =>
                \A i \in 0..(Len(main_word) - 1) :
                    /\ OnDiagonal(i) = UpperChar(main_word[i + 1])
                    /\ At(grid', DiagonalCell(i)) = OnDiagonal(i)]_vars

\* an accepted level: the diagonal cells were crossed by horizontal words and
\* vertical and horizontal words were laid next to them
C37_Witness ==
    /\ pc = "play"
    /\ vertical_count > 0
    /\ horizontal_count > 0
    /\ \A i \in 0..(Len(main_word) - 1) : OnDiagonal(i) = UpperChar(main_word[i + 1])

(***************************************************************************)
(* The guessing loop of play_game (src/worderly.py, lines 478-638) and the  *)
(* loop of main that calls play_game again (lines 684-690), on the level    *)
(* MASTER, "mate" across its M, "tea" down through the a of "mate".         *)
(*   pc: "guess" line 539, waiting for a guess    "won" line 524, waiting   *)
(*       for the answer after a win    "over" line 635, waiting for the     *)
(*       answer after the last life    "returned" play_game has returned;   *)
(*   result: what play_game returned; call: the guess of line 539;          *)
(*   ops: the levels of the session so far.                                 *)
(***************************************************************************)
\* the levels of one session
MaxLevels == 2

\* lines 585-589: the first key of the answer map that is the guess in lower case
matching_word(guess, correct_guesses) ==
    LET ks == {k \in 1..Len(correct_guesses) : Lower(correct_guesses[k].word) = guess}
    IN  IF ks = {} THEN <<>>
        ELSE <<correct_guesses[CHOOSE k \in ks : \A x \in ks : k <= x].word>>

\* a guess that takes no life for a word found before
guess_result_RepeatsFree(guess, lv, found, hidden, correct_guesses, guessed, pts, revealed, mw) ==
    LET same == [lives |-> lv, found_words |-> found, grid |-> hidden,
                 guessed_words |-> guessed, points |-> pts, revealed_positions |-> revealed]
        key  == IF guess = Lower(mw) THEN <<Upper(mw)>>
                ELSE matching_word(guess, correct_guesses)
    IN  IF key = <<>> THEN [same EXCEPT !.lives = lv - 1]
        ELSE IF key[1] \in found THEN same
        ELSE LET u == update_hidden_grid(guess, hidden, correct_guesses, key[1], guessed,
                                         pts, revealed, Upper(mw))
             IN  [lives |-> lv, found_words |-> found \cup {key[1]}, grid |-> u.grid,
                  guessed_words |-> u.guessed_words, points |-> u.points,
                  revealed_positions |-> u.revealed_positions]

\* lines 570-605: a guess that is no command
guess_result(guess, lv, found, hidden, correct_guesses, guessed, pts, revealed, mw) ==
    LET same == [lives |-> lv, found_words |-> found, grid |-> hidden,
                 guessed_words |-> guessed, points |-> pts, revealed_positions |-> revealed]
        key  == IF guess = Lower(mw) THEN <<Upper(mw)>>
                ELSE matching_word(guess, correct_guesses)
    IN  IF key = <<>> THEN [same EXCEPT !.lives = lv - 1]
        ELSE IF key[1] \in found THEN [same EXCEPT !.lives = lv - 1]
        ELSE LET u == update_hidden_grid(guess, hidden, correct_guesses, key[1], guessed,
                                         pts, revealed, Upper(mw))
             IN  [lives |-> lv, found_words |-> found \cup {key[1]}, grid |-> u.grid,
                  guessed_words |-> u.guessed_words, points |-> u.points,
                  revealed_positions |-> u.revealed_positions]

\* a save for streaks of two games and more
save_streak_LongOnly(es, name, streak, total) ==
    IF name # <<>> /\ streak > 1 THEN add_entry(es, name, streak, total, Now) ELSE es

\* lines 529-534, 543-548, 553-558 and 617-622: the entries after the streak of a
\* named player is saved
save_streak(es, name, streak, total) ==
    IF name # <<>> /\ streak > 0 THEN add_entry(es, name, streak, total, Now) ELSE es

\* lines 626-631: the entries after the score of the lost game is saved
save_score(es, name, pts) ==
    IF name # <<>> THEN add_entry(es, name, 0, pts, Now) ELSE es

\* what the player types at line 539
PlayInputs ==
    { <<"m","a","t","e">>, <<"T","E","A"," ">>, <<"a","r","m">>,
      <<"m","a","s","t","e","r">>, <<"M","a","s","t","e","r">>, <<"t","e","a","m">>, <<>>,
      <<"r">>, <<"R">>, <<" ","e">>, <<"E">>, <<"l">>, <<"L","\n">> }

\* what the player types at lines 524 and 635
PlayChoices == { <<"y">>, <<" ","Y">>, <<"n">>, <<>> }

PlayNames == { <<>>, <<"a","b">> }

\* the level the generation loop hands to the guessing loop
PlayLevel ==
    LET d == main_word_diagonal(RevealMain, make_grid, <<>>)
        h == place_main_subwords(RevealMain, << <<"m","a","t","e">> >>, d.grid, d.game_words)
    IN  place_vertical_subwords(<<"m","a","t","e">>, << <<"t","e","a">> >>, h.grid,
                                h.game_words, 0, SecondOfFour)

\* lines 478-494: the locals of a new level
LevelStart ==
    /\ grid' = PlayLevel.grid
    /\ game_words' = PlayLevel.game_words
    /\ main_word' = RevealMain
    /\ hide_the_letters_grid' = hide_letters(PlayLevel.grid)
    /\ lives' = 5
    /\ level_points' = 0
    /\ guessed_words' = <<>>
    /\ revealed_positions' = <<>>
    /\ found_words' = {}

PlayInit ==
    /\ wordlist = <<>>
    /\ rng = 0
    /\ pc = "guess"
    /\ grid = PlayLevel.grid
    /\ game_words = PlayLevel.game_words
    /\ main_word = RevealMain
    /\ gs_subwords = <<>>
    /\ subwords = <<>>
    /\ vertical_count = 0
    /\ horizontal_count = 0
    /\ attempts = 0
    /\ count = 0
    /\ fill_attempts = 0
    /\ direction = "vertical"
    /\ ops = 1
    /\ lex_word = <<>>
    /\ lex_main = <<>>
    /\ result = "None"
    /\ call = <<>>
    /\ file = [kind |-> "missing", value |-> [type |-> "none", items |-> <<>>]]
    /\ entries = <<>>
    /\ current_streak = 0
    /\ current_points = 0
    /\ player_name \in PlayNames
    /\ wins = <<>>
    /\ hide_the_letters_grid = hide_letters(grid)
    /\ guessed_words = <<>>
    /\ level_points = 0
    /\ revealed_positions = <<>>
    /\ lives = 5
    /\ found_words = {}

\* the leaderboard after the calls of add_entry that made its entries es
BoardBecomes(es) ==
    /\ entries' = es
    /\ file' = IF es = entries THEN file ELSE save_leaderboard(es)

\* lines 539-636 and, when the loop goes on, lines 499-523 of the next iteration
PlayStep ==
    /\ pc = "guess"
    /\ \E typed \in PlayInputs :
          LET guess == Lower(Strip(typed))
          IN  /\ call' = guess
              /\ IF Upper(guess) = <<"R">>
                 THEN /\ BoardBecomes(save_streak(entries, player_name, current_streak,
                                                  current_points))
                      /\ current_streak' = reset_streak.current_streak
                      /\ current_points' = reset_streak.current_points
                      /\ wins' = <<>>
                      /\ result' = "R"
                      /\ pc' = "returned"
                      /\ UNCHANGED <<hide_the_letters_grid, guessed_words, level_points,
                                     revealed_positions, lives, found_words>>
                 ELSE IF Upper(guess) = <<"E">>
                 THEN /\ BoardBecomes(save_streak(entries, player_name, current_streak,
                                                  current_points))
                      /\ result' = "E"
                      /\ pc' = "returned"
                      /\ UNCHANGED <<hide_the_letters_grid, guessed_words, level_points,
                                     revealed_positions, lives, found_words, current_streak,
                                     current_points, wins>>
                 ELSE IF Upper(guess) = <<"L">>
                 THEN /\ pc' = "guess"
                      /\ UNCHANGED <<hide_the_letters_grid, guessed_words, level_points,
                                     revealed_positions, lives, found_words, current_streak,
                                     current_points, wins, entries, file, result>>
                 ELSE LET g == guess_result(guess, lives, found_words, hide_the_letters_grid,
                                            game_words, guessed_words, level_points,
                                            revealed_positions, main_word)
                      IN  /\ lives' = g.lives
                          /\ found_words' = g.found_words
                          /\ hide_the_letters_grid' = g.grid
                          /\ guessed_words' = g.guessed_words
                          /\ level_points' = g.points
                          /\ revealed_positions' = g.revealed_positions
                          /\ UNCHANGED result
                          /\ IF g.lives = 0
                             THEN /\ BoardBecomes(
                                        save_score(save_streak(entries, player_name,
                                                               current_streak, current_points),
                                                   player_name, g.points))
                                  /\ current_streak' = reset_streak.current_streak
                                  /\ current_points' = reset_streak.current_points
                                  /\ wins' = <<>>
                                  /\ pc' = "over"
                             ELSE IF Cardinality(g.found_words) = Len(game_words)
                             THEN LET t == add_win(current_streak, current_points, g.points)
                                  IN  /\ current_streak' = t.current_streak
                                      /\ current_points' = t.current_points
                                      /\ wins' = Append(wins, g.points)
                                      /\ pc' = "won"
                                      /\ UNCHANGED <<entries, file>>
                             ELSE /\ pc' = "guess"
                                  /\ UNCHANGED <<entries, file, current_streak,
                                                 current_points, wins>>
    /\ UNCHANGED <<wordlist, rng, grid, game_words, main_word, gs_subwords, subwords, loopVars,
                   ops, lex_word, lex_main, player_name>>

\* lines 524-537: the answer after a win
WinChoice ==
    /\ pc = "won"
    /\ \E typed \in PlayChoices :
          IF Lower(Strip(typed)) = <<"y">>
          THEN /\ result' = "R"
               /\ UNCHANGED <<entries, file, current_streak, current_points, wins>>
          ELSE /\ BoardBecomes(save_streak(entries, player_name, current_streak,
                                           current_points))
               /\ current_streak' = reset_streak.current_streak
               /\ current_points' = reset_streak.current_points
               /\ wins' = <<>>
               /\ result' = "M"
    /\ pc' = "returned"
    /\ UNCHANGED <<wordlist, rng, grid, game_words, main_word, gs_subwords, subwords, loopVars,
                   ops, lex_word, lex_main, call, player_name, playVars>>

\* lines 635-636: the answer after the last life
LossChoice ==
    /\ pc = "over"
    /\ \E typed \in PlayChoices :
          result' = IF Lower(Strip(typed)) = <<"y">> THEN "R" ELSE "M"
    /\ pc' = "returned"
    /\ UNCHANGED <<wordlist, rng, grid, game_words, main_word, gs_subwords, subwords, loopVars,
                   ops, lex_word, lex_main, call, file, entries, current_streak, current_points,
                   player_name, wins, playVars>>

\* lines 685-686 of main and lines 478-514: play_game is called again
NextLevel ==
    /\ pc = "returned"
    /\ result = "R"
    /\ ops < MaxLevels
    /\ LevelStart
    /\ ops' = ops + 1
    /\ pc' = "guess"
    /\ result' = "None"
    /\ call' = <<>>
    /\ UNCHANGED <<wordlist, rng, gs_subwords, subwords, loopVars, lex_word, lex_main, file, entries,
                   current_streak, current_points, player_name, wins>>

PlayNext == PlayStep \/ WinChoice \/ LossChoice \/ NextLevel

SpecPlay == PlayInit /\ [][PlayNext]_vars

\* the guess is one of the letter commands of lines 542-566
IsCommand(g) == Upper(g) \in { <<"R">>, <<"E">>, <<"L">> }

\* the guess is, ignoring case, a word of the level that has not been found
NotYetFound(g) ==
    \E k \in 1..Len(game_words) :
        Lower(game_words[k].word) = g /\ game_words[k].word \notin found_words

\* C38: in a session of play_game lives starts at 5 and stays within 0..5; a
\* guess that is no command and no word of the level still to be found (an
\* unknown word or a word found before) takes exactly one life, a word still
\* to be found and the L command take none; the game is over exactly when
\* lives is 0, and a win is reported only when every word of the level, the
\* main word included, has been found.
C38_Lives ==
    /\ lives = 5
    /\ [][/\ lives \in 0..5
          /\ lives' \in 0..5
          /\ pc = "over" => lives = 0
          /\ pc \in {"guess", "won"} => lives > 0
          /\ pc = "guess" =>
                \A g \in {call'} :
                    /\ Upper(g) = <<"L">> => lives' = lives /\ pc' = "guess"
                    /\ (~IsCommand(g) /\ NotYetFound(g)) =>
                          lives' = lives /\ found_words' # found_words
                    /\ (~IsCommand(g) /\ ~NotYetFound(g)) =>
                          lives' = lives - 1 /\ found_words' = found_words
                    /\ pc' = "over" <=> lives' = 0
                    /\ pc' = "won" =>
                          /\ found_words' = Keys(game_words)
                          /\ Upper(main_word) \in found_words'
          /\ pc \in {"won", "over"} => lives' = lives
          /\ pc = "returned" => lives' = 5]_vars

\* the last life lost on a level on which a word was found
C38_Witness ==
    /\ pc = "over"
    /\ lives = 0
    /\ found_words # {}

\* a win with one life left
C38_WonWitness ==
    /\ pc = "won"
    /\ lives = 1
    /\ Cardinality(found_words) = Len(game_words)

\* the leaderboard entry of the tracker's streak as it stands before the step
StreakEntry ==
    [player_name |-> player_name, streak_length |-> current_streak,
     total_points |-> current_points, timestamp |-> Now]

\* the step added the entry e to the leaderboard and saved the leaderboard
Added(e) ==
    /\ Cardinality({k \in 1..Len(entries') : entries'[k] = e})
          = Cardinality({k \in 1..Len(entries) : entries[k] = e}) + 1
    /\ file' = save_leaderboard(entries')

\* C39: a non-zero streak of a named player is never dropped unsaved: a step
\* of play_game that resets it (the last life lost, the R command, the answer
\* that declines to continue after a win) or that exits on the E command has
\* added a leaderboard entry with the player's name, the streak and its
\* points; play_game returns for another level with a non-zero streak only
\* when the player answers y after a win, which added one to the streak, and
\* it returns to the menu with the streak at zero.
C39_StreakSaved ==
    [][/\ (/\ player_name # <<>>
           /\ current_streak > 0
           /\ current_streak' = 0 \/ (pc' = "returned" /\ result' = "E"))
          => Added(StreakEntry)
       /\ (pc # "returned" /\ pc' = "returned") =>
             /\ result' \in {"R", "M", "E"}
             /\ result' = "M" => current_streak' = 0
             /\ (result' = "R" /\ current_streak' > 0) =>
                   /\ pc = "won"
                   /\ current_streak' = current_streak
                   /\ current_points' = current_points
             /\ result' = "E" =>
                   current_streak' = current_streak /\ current_points' = current_points
       /\ pc' = "won" => current_streak' = current_streak + 1
       /\ current_streak' # current_streak => current_streak' = 0 \/ pc' = "won"]_vars

\* a named player declined to continue after the second win in a row: the
\* streak of two is on the leaderboard and the tracker is reset
C39_Witness ==
    /\ pc = "returned"
    /\ result = "M"
    /\ player_name # <<>>
    /\ current_streak = 0
    /\ \E k \in 1..Len(entries) :
          entries[k].streak_length = MaxLevels /\ entries[k].player_name = player_name

\* a named player left with the E command after a win
C39_ExitWitness ==
    /\ pc = "returned"
    /\ result = "E"
    /\ current_streak > 0
    /\ \E k \in 1..Len(entries) : entries[k].streak_length = current_streak

=============================================================================
